---- MODULE Spec2Model ----
(***************************************************************************)
(* Model of the passive asset discovery engine: the asset data model       *)
(* (internal/assets: NewAsset, Asset.Update, Asset.SetInactive and their   *)
(* helpers), the asset manager (UpdateAsset, the expiry and statistics     *)
(* ticks, the asynchronous saves, Stop), the storage backends it saves to  *)
(* and the capture worker pool that feeds it.  The manager's handlers are  *)
(* taken as single steps, which the table lock justifies; SpecLock takes   *)
(* them in steps, with the lock and with the saves that read an asset      *)
(* outside it.  SpecRun is the capture call under the scheduler's          *)
(* fairness and SpecStart the command from the construction of the engine. *)
(* SpecMerge merges observations of one device into one asset.  The pure   *)
(* helpers (the BPF filter builder, the device classification, the OS hint *)
(* of a User-Agent, the packet parser) are each applied to an input drawn  *)
(* from a bounded set: SpecFilter, SpecClassify, SpecUserAgent, SpecParser.*)
(* SpecOptions takes the loop of parseDHCPOptions one pass at a time over  *)
(* any bytes.  SpecReload starts the manager on a storage that holds the   *)
(* documents of an earlier run, SpecIdentity merges into assets keyed by   *)
(* MAC and by IPv4, and SpecOrder runs every handler as the sequence of    *)
(* lock operations it performs on the table, asset and storage locks.      *)
(*                                                                         *)
(* Time.  time.Now() is modelled by the variable clock, counted in whole   *)
(* seconds (the resolution of the "20060102150405" label).  The clock      *)
(* jumps between handlers (Tick) and may also move by one second while a   *)
(* handler runs, so the successive time.Now() reads of one handler form a  *)
(* non-decreasing sequence (Reads).                                        *)
(*                                                                         *)
(* Slices built by ranging over a Go map (mergePorts, mergeServices,       *)
(* mergeOSInfo) have no defined order and no operation reads positions of  *)
(* them, so they are modelled without order: OpenPorts is a bag of         *)
(* PortInfo (a bag, because convertPorts keeps duplicates and equalPorts   *)
(* compares lengths), Services and Detection are sets.                     *)
(*                                                                         *)
(* Confidence values are kept in tenths (3 stands for 0.3).  Device type   *)
(* labels are written in English ("server" for the source's literal).      *)
(***************************************************************************)
EXTENDS Integers, Sequences, FiniteSets, Bags, TLC

VARIABLES
    clock,            \* time.Now(), in seconds
    assets,           \* AssetManager.assets: table key -> Asset
    stats,            \* AssetManager.stats
    saveTasks,        \* bag of pending "go am.saveAsset(id)" goroutines
    store,            \* Storage.data: document id -> document
    storageType,      \* cfg.Storage.Type
    mgrStopped,       \* AssetManager.stopCh is closed
    flushPending,     \* saveAllAssets: assets collected and not yet saved
    loops,            \* the background routines still running
    calls,            \* number of direct UpdateAsset calls made
    background,       \* number of background steps taken (statistics, saves,
                      \* stop and flush, routine exits)
    packetChan,       \* frames yielded by the capture source, not yet received
    yielded,          \* number of frames yielded so far
    sourceClosed,     \* the capture source reached end-of-stream
    wstate,           \* per worker: "recv" | "merge" | "done"
    wobs,             \* per worker: the frame it is handling
    packetsProcessed, \* per worker: worker-local counter
    ceStopped,        \* CaptureEngine.stopCh is closed
    merged,           \* history: the frames the workers have merged, in the
                      \* order of their merges
    last,             \* history: the most recent operation on the table and,
                      \* for a merge, its observation and whether the
                      \* operation before it was a merge of the same one
    mu,               \* AssetManager.mutex: the holder of the write lock
    cs,               \* per background routine: its position in its handler
    pend,             \* per worker: the asset its Update is writing
    saveRead,         \* bag of table keys whose asset pointer a saveAsset
                      \* goroutine has read and not yet handed to the storage
    whole,            \* history: the documents of the asset states left by
                      \* whole operations (merges, expiries)
    flushed,          \* history: the table keys whose asset saveAllAssets has
                      \* handed to the storage
    sent,             \* history: the frames the capture source has yielded,
                      \* in order
    maxPackets,       \* cfg.Parser.MaxPackets (0 = unbounded)
    engine,           \* the run of the command: how far it has got, whether
                      \* the construction of the storage backend failed, and
                      \* the exit code once it has exited
    input,            \* the argument of the helper under examination: a
                      \* protocol list, a User-Agent, an observation, a packet
    output,           \* what the helper returned for it (NotCalled before)
    held,             \* per lock (the table mutex, the mutex of each asset,
                      \* the mutex of the storage): its writer, the writer
                      \* that has announced itself, its readers
    pc                \* per goroutine: the lock operations its handler has
                      \* still to do

vars == <<clock, assets, stats, saveTasks, store, storageType,
          mgrStopped, flushPending, loops, calls, background, packetChan, yielded,
          sourceClosed, wstate, wobs, packetsProcessed, ceStopped, merged, last,
          mu, cs, pend, saveRead, whole, flushed, sent, maxPackets, engine,
          input, output, held, pc>>

timeVars == <<clock>>
stopVars == <<mgrStopped, flushPending, loops>>
poolVars == <<packetChan, yielded, sourceClosed, wstate, wobs,
              packetsProcessed, ceStopped, merged>>
lockVars == <<mu, cs, pend, saveRead, whole>>
histVars == <<flushed, sent>>
cfgVars == <<maxPackets, engine>>
callVars == <<input, output>>
orderVars == <<held, pc>>

----------------------------------------------------------------------------
(* Bounds *)

MaxCalls == 3        \* direct calls of UpdateAsset
MaxManagerCalls == 2 \* the same, in the specification of the whole manager
MaxClock == 61       \* the clock stays within this many seconds
MaxSeconds == 1      \* single seconds the clock moves by
MaxBackground == 2   \* background steps
MaxFrames == 3       \* frames the capture source yields
MaxLockFrames == 2   \* the same, in the specification of the handlers in steps
MaxRunFrames == 2    \* the same, in the specification of the whole run
MaxProtocols == 3    \* names in parser.enabled_protocols
MaxPortList == 2     \* open ports of a classified observation
MaxPieces == 2       \* platform words of a User-Agent

(* Configuration *)
NumWorkers == 2      \* cfg.Capture.Workers
AssetTimeout == 1    \* cfg.Parser.AssetTimeout, in minutes
MaxPackets == 2      \* cfg.Parser.MaxPackets, when a cap is set

(* Program constants *)
Minute == 60         \* time.Minute, in seconds

EmptyMap == <<>>

----------------------------------------------------------------------------
(* Time *)

\* time.Now().Format("20060102150405"): the label of a whole second
FormatTime(t) == ToString(t)

\* the clock is made of jumps by the asset timeout and of single seconds
Seconds == clock % (AssetTimeout * Minute)

\* the clock may move by one more second
MaySecond == Seconds < MaxSeconds /\ clock < MaxClock

\* The non-decreasing sequences of n successive time.Now() reads of one
\* handler: the clock moves by at most one second while the handler runs,
\* after its first read.
Reads(n) ==
    { [i \in 1..n |-> IF i <= k THEN clock ELSE clock + 1] :
        k \in (IF MaySecond THEN 1..n ELSE {n}) }

\* the clock after a handler whose reads were r
ClockAfter(r) == IF Len(r) = 0 THEN clock ELSE r[Len(r)]

----------------------------------------------------------------------------
(* internal/assets: helpers of the data model *)

\* the identity function with the priority of MAC and IPv4 exchanged
generateAssetID_IpFirst(assetInfo, t) ==
    IF assetInfo.IPAddress # "" THEN "ip_" \o assetInfo.IPAddress
    ELSE IF assetInfo.MACAddress # "" THEN "mac_" \o assetInfo.MACAddress
    ELSE "unknown_" \o ToString(t)

generateAssetID(assetInfo, t) ==
    IF assetInfo.MACAddress # "" THEN "mac_" \o assetInfo.MACAddress
    ELSE IF assetInfo.IPAddress # "" THEN "ip_" \o assetInfo.IPAddress
    ELSE "unknown_" \o FormatTime(t)

VirtualVendors == {"VMware", "VirtualBox", "QEMU/KVM", "Microsoft Hyper-V", "Xen"}
WebPorts == {80, 443, 8080, 8443}
ServerPorts == {22, 23, 3389, 21, 25, 53, 110, 143}

SeqRange(s) == { s[i] : i \in DOMAIN s }

\* the classification testing for a web port before a server port
classifyDeviceType_WebFirst(assetInfo) ==
    LET hasWebPorts == SeqRange(assetInfo.OpenPorts) \cap WebPorts # {}
        hasServerPorts == SeqRange(assetInfo.OpenPorts) \cap ServerPorts # {}
    IN  IF assetInfo.Vendor \in VirtualVendors THEN "virtual machine"
        ELSE IF hasWebPorts THEN "web device"
        ELSE IF hasServerPorts THEN "server"
        ELSE IF assetInfo.OSGuess = "Linux/Unix" THEN "server"
        ELSE IF assetInfo.OSGuess = "Windows" THEN "workstation"
        ELSE IF assetInfo.OSGuess = "Cisco/Network Device" THEN "network device"
        ELSE "unknown device"

classifyDeviceType(assetInfo) ==
    LET hasWebPorts == SeqRange(assetInfo.OpenPorts) \cap WebPorts # {}
        hasServerPorts == SeqRange(assetInfo.OpenPorts) \cap ServerPorts # {}
    IN  IF assetInfo.Vendor \in VirtualVendors THEN "virtual machine"
        ELSE IF hasWebPorts /\ hasServerPorts THEN "server"
        ELSE IF hasWebPorts THEN "web device"
        ELSE IF hasServerPorts THEN "server"
        ELSE IF assetInfo.OSGuess = "Linux/Unix" THEN "server"
        ELSE IF assetInfo.OSGuess = "Windows" THEN "workstation"
        ELSE IF assetInfo.OSGuess = "Cisco/Network Device" THEN "network device"
        ELSE "unknown device"

HasKey(m, k) == k \in DOMAIN m

extractOSInfo(assetInfo) ==
    LET p == assetInfo.Protocols
        ua == HasKey(p, "http") /\ HasKey(p["http"], "user-agent")
        vc == HasKey(p, "dhcp") /\ HasKey(p["dhcp"], "vendor_class")
    IN  [Family     |-> assetInfo.OSGuess,
         Version    |-> IF vc THEN p["dhcp"]["vendor_class"] ELSE "",
         Kernel     |-> "",
         Detection  |-> (IF assetInfo.OSGuess # "" THEN {"ttl_analysis"} ELSE {})
                        \cup (IF ua THEN {"user_agent"} ELSE {})
                        \cup (IF vc THEN {"dhcp_vendor_class"} ELSE {}),
         Confidence |-> 5]

PortInfo(port, now) ==
    [Port |-> port, Protocol |-> "tcp", State |-> "open", Service |-> "",
     Version |-> "", Banner |-> "", FirstSeen |-> now, LastSeen |-> now]

\* one PortInfo per element of the list, duplicates kept
convertPorts(ports, now) ==
    LET recs == { PortInfo(ports[i], now) : i \in DOMAIN ports }
    IN  [r \in recs |-> Cardinality({ i \in DOMAIN ports : ports[i] = r.Port })]

convertServices(services, now) ==
    { [Name |-> name, Version |-> services[name], Port |-> 0, Protocol |-> "",
       Banner |-> "", FirstSeen |-> now, LastSeen |-> now] :
      name \in DOMAIN services }

calculateConfidence(assetInfo) ==
    LET confidence ==
            (IF assetInfo.MACAddress # "" THEN 3 ELSE 0)
          + (IF assetInfo.IPAddress # "" THEN 2 ELSE 0)
          + (IF assetInfo.Hostname # "" THEN 2 ELSE 0)
          + (IF Len(assetInfo.OpenPorts) > 0 THEN 1 ELSE 0)
          + (IF DOMAIN assetInfo.Services # {} THEN 1 ELSE 0)
          + (IF assetInfo.OSGuess # "" THEN 1 ELSE 0)
    IN  IF confidence > 10 THEN 10 ELSE confidence

PortNumbers(bag) == { r.Port : r \in BagToSet(bag) }
ServiceNames(svcs) == { s.Name : s \in svcs }

\* equalPorts never finding the lists equal
equalPorts_Never(a, b) == FALSE

\* equalPorts comparing the lengths only
equalPorts_LengthOnly(a, b) == BagCardinality(a) = BagCardinality(b)

equalPorts(a, b) ==
    /\ BagCardinality(a) = BagCardinality(b)
    /\ PortNumbers(b) \subseteq PortNumbers(a)

\* the merge keeping only the ports of the new observation
mergePorts_NewOnly(existing, new) == new

\* portMap[port.Port] = port over existing, then over new
mergePorts(existing, new) ==
    LET old(p) == CHOOSE r \in BagToSet(existing) : r.Port = p
        nw(p)  == CHOOSE r \in BagToSet(new) : r.Port = p
        entry(p) ==
            IF p \in PortNumbers(existing)
            THEN IF p \in PortNumbers(new)
                 THEN [old(p) EXCEPT !.LastSeen = nw(p).LastSeen]
                 ELSE old(p)
            ELSE nw(p)
    IN  SetToBag({ entry(p) : p \in PortNumbers(existing) \cup PortNumbers(new) })

mergeServices(existing, new) ==
    LET old(n) == CHOOSE s \in existing : s.Name = n
        nw(n)  == CHOOSE s \in new : s.Name = n
        entry(n) ==
            IF n \in ServiceNames(existing)
            THEN IF n \in ServiceNames(new)
                 THEN [old(n) EXCEPT !.LastSeen = nw(n).LastSeen,
                                     !.Version = IF nw(n).Version # ""
                                                 THEN nw(n).Version ELSE @]
                 ELSE old(n)
            ELSE nw(n)
    IN  { entry(n) : n \in ServiceNames(existing) \cup ServiceNames(new) }

\* key-wise upsert, the new value wins
mergeProtocols(existing, new) == new @@ existing

mergeOSInfo(existing, new) ==
    [Family     |-> IF new.Family # "" THEN new.Family ELSE existing.Family,
     Version    |-> IF new.Version # "" THEN new.Version ELSE existing.Version,
     Kernel     |-> IF new.Kernel # "" THEN new.Kernel ELSE existing.Kernel,
     Detection  |-> existing.Detection \cup new.Detection,
     Confidence |-> IF new.Confidence > existing.Confidence
                    THEN new.Confidence ELSE existing.Confidence]

ChangeRecord(now, type, old, new, desc) ==
    [Timestamp |-> now, ChangeType |-> type, OldValue |-> old,
     NewValue |-> new, Description |-> desc]

\* NewAsset: r.now is the read of line 131, r.id the read inside
\* generateAssetID, r.ports and r.svcs the reads of the two conversions.
NewAsset(assetInfo, r) ==
    [ID         |-> generateAssetID(assetInfo, r.id),
     IPAddress  |-> assetInfo.IPAddress,
     MACAddress |-> assetInfo.MACAddress,
     Hostname   |-> assetInfo.Hostname,
     Vendor     |-> assetInfo.Vendor,
     DeviceType |-> classifyDeviceType(assetInfo),
     OSInfo     |-> extractOSInfo(assetInfo),
     OpenPorts  |-> convertPorts(assetInfo.OpenPorts, r.ports),
     Services   |-> convertServices(assetInfo.Services, r.svcs),
     Protocols  |-> assetInfo.Protocols,
     FirstSeen  |-> r.now,
     LastSeen   |-> r.now,
     LastUpdate |-> r.now,
     IsActive   |-> TRUE,
     Confidence |-> calculateConfidence(assetInfo),
     Changes    |-> <<>>]

\* the test taking an empty value for a change
ScalarChanged_EvenEmpty(new, old) == new # old

\* the tests of lines 164 and 176: the observation carries a value of the
\* field and it is not the one the asset holds
ScalarChanged(new, old) == new # "" /\ new # old

\* the reclassification keeping the type of an asset that has one
Reclassified_KeepKnown(a, assetInfo) ==
    IF a.DeviceType # "unknown device" THEN a.DeviceType
    ELSE classifyDeviceType(assetInfo)

\* line 229 of Asset.Update: the device type is computed from the
\* observation, the asset is not looked at
Reclassified(a, assetInfo) == classifyDeviceType(assetInfo)

\* the touch leaving an asset that expiry has deactivated inactive
Touched_KeepInactive(a, now) ==
    [a EXCEPT !.LastSeen = now, !.LastUpdate = now]

\* lines 243-246 of Asset.Update: the asset was seen, and changed, now
Touched(a, now) ==
    [a EXCEPT !.LastSeen = now, !.LastUpdate = now, !.IsActive = TRUE]

\* Asset.Update: r.now is the read of line 160, r.ports and r.svcs the reads
\* of the two conversions.
Update(a, assetInfo, r) ==
    LET now == r.now
        ipCh == ScalarChanged(assetInfo.IPAddress, a.IPAddress)
        hostCh == ScalarChanged(assetInfo.Hostname, a.Hostname)
        newPorts == convertPorts(assetInfo.OpenPorts, r.ports)
        portsCh == Len(assetInfo.OpenPorts) > 0 /\ ~equalPorts(a.OpenPorts, newPorts)
        newServices == convertServices(assetInfo.Services, r.svcs)
        newOSInfo == extractOSInfo(assetInfo)
        osCh == /\ assetInfo.OSGuess # ""
                /\ newOSInfo.Family # ""
                /\ newOSInfo.Family # a.OSInfo.Family
        newDeviceType == Reclassified(a, assetInfo)
        dtCh == newDeviceType # "" /\ newDeviceType # a.DeviceType
        changes ==
            (IF ipCh THEN <<ChangeRecord(now, "ip_change", a.IPAddress,
                                         assetInfo.IPAddress, "ip address changed")>>
                     ELSE <<>>)
         \o (IF hostCh THEN <<ChangeRecord(now, "hostname_change", a.Hostname,
                                           assetInfo.Hostname, "hostname changed")>>
                       ELSE <<>>)
         \o (IF portsCh THEN <<ChangeRecord(now, "ports_change", a.OpenPorts,
                                            newPorts, "open ports changed")>>
                        ELSE <<>>)
         \o (IF osCh THEN <<ChangeRecord(now, "os_change", a.OSInfo,
                                         newOSInfo, "os info changed")>>
                     ELSE <<>>)
         \o (IF dtCh THEN <<ChangeRecord(now, "device_type_change", a.DeviceType,
                                         newDeviceType, "device type changed")>>
                     ELSE <<>>)
    IN  [a EXCEPT
           !.IPAddress  = IF ipCh THEN assetInfo.IPAddress ELSE @,
           !.Hostname   = IF hostCh THEN assetInfo.Hostname ELSE @,
           !.OpenPorts  = IF portsCh THEN mergePorts(@, newPorts) ELSE @,
           !.Services   = IF DOMAIN assetInfo.Services # {}
                          THEN mergeServices(@, newServices) ELSE @,
           !.Protocols  = IF DOMAIN assetInfo.Protocols # {}
                          THEN mergeProtocols(@, assetInfo.Protocols) ELSE @,
           !.OSInfo     = IF osCh THEN mergeOSInfo(@, newOSInfo) ELSE @,
           !.DeviceType = IF dtCh THEN newDeviceType ELSE @,
           !.Changes    = @ \o changes,
           !.LastSeen   = Touched(a, now).LastSeen,
           !.LastUpdate = Touched(a, now).LastUpdate,
           !.IsActive   = Touched(a, now).IsActive,
           !.Confidence = calculateConfidence(assetInfo)]

\* SetInactive journaling the new value for the old one
SetInactive_NewForOld(a, tUpd, tRec) ==
    IF a.IsActive
    THEN [a EXCEPT !.IsActive = FALSE,
                   !.LastUpdate = tUpd,
                   !.Changes = Append(@, ChangeRecord(tRec, "status_change", FALSE,
                                                      TRUE, "asset became inactive"))]
    ELSE a

\* SetInactive starting a fresh journal
SetInactive_FreshJournal(a, tUpd, tRec) ==
    IF a.IsActive
    THEN [a EXCEPT !.IsActive = FALSE,
                   !.LastUpdate = tUpd,
                   !.Changes = <<ChangeRecord(tRec, "status_change", TRUE,
                                              FALSE, "asset became inactive")>>]
    ELSE a

\* Asset.SetInactive: tUpd is the read of line 259, tRec the read of line 262
SetInactive(a, tUpd, tRec) ==
    IF a.IsActive
    THEN [a EXCEPT !.IsActive = FALSE,
                   !.LastUpdate = tUpd,
                   !.Changes = Append(@, ChangeRecord(tRec, "status_change", TRUE,
                                                      FALSE, "asset became inactive"))]
    ELSE a

----------------------------------------------------------------------------
(* Observations (assets.AssetInfo) *)

Nil == [nil |-> TRUE]

\* no helper has been called on the input yet
NotCalled == [called |-> FALSE]

\* the helper has returned v
Result(v) == [called |-> TRUE, value |-> v]

AssetInfo(ts, mac, ip, host, vendor, os, ports, services, protocols) ==
    [Timestamp |-> ts, MACAddress |-> mac, IPAddress |-> ip, Hostname |-> host,
     Vendor |-> vendor, OSGuess |-> os, OpenPorts |-> ports,
     Services |-> services, Protocols |-> protocols]

Mac1 == "aa:bb:cc:dd:ee:ff"
Ip1 == "192.168.1.10"
Ip2 == "10.0.0.5"

Ipv4Payload(ip, ttl) == [src_ip |-> ip, ttl |-> ttl]

\* a SYN+ACK from port 22 of Mac1, now at Ip2, TTL 64
ObsSsh(ts) ==
    AssetInfo(ts, Mac1, Ip2, "", "", "Linux/Unix", <<22>>, "22/tcp" :> "SSH",
              "ipv4" :> Ipv4Payload(Ip2, 64))
\* a TCP segment from port 80 of Mac1 at Ip1, SYN and ACK set, whose payload
\* has Host and Server headers
ObsHttp(ts) ==
    AssetInfo(ts, Mac1, Ip1, "www.example.com", "", "Windows", <<80>>,
              ("80/tcp" :> "HTTP") @@ ("http" :> "nginx/1.18"),
              ("ipv4" :> Ipv4Payload(Ip1, 128))
              @@ ("http" :> (("host" :> "www.example.com") @@ ("server" :> "nginx/1.18"))))
\* a DHCP request of Mac1, which has no address yet, naming itself alice-pc
ObsDhcp(ts) ==
    AssetInfo(ts, Mac1, "0.0.0.0", "alice-pc", "", "Windows", <<>>, EmptyMap,
              ("ipv4" :> Ipv4Payload("0.0.0.0", 128))
              @@ ("dhcp" :> (("hostname" :> "alice-pc") @@ ("vendor_class" :> "MSFT 5.0"))))
\* an IPv4 frame of Ip2 whose Ethernet source is multicast (no MAC recorded)
ObsIpOnly(ts) ==
    AssetInfo(ts, "", Ip2, "", "", "Cisco/Network Device", <<>>, EmptyMap,
              "ipv4" :> Ipv4Payload(Ip2, 255))

\* a frame from which ParsePacket extracts nothing (multicast Ethernet
\* source, no ARP and no IPv4 layer)
ObsNothing(ts) == AssetInfo(ts, "", "", "", "", "", <<>>, EmptyMap, EmptyMap)

\* observations only a direct caller of the exported UpdateAsset can pass
\* (the parser never returns one without MAC and IPv4: every layer that
\* fills another field also fills the IPv4)
ObsNoIdentity == AssetInfo(0, "", "", "printer", "", "", <<>>, EmptyMap, EmptyMap)
ObsPortList == AssetInfo(0, Mac1, Ip1, "", "", "", <<22, 22>>, EmptyMap, EmptyMap)

\* a frame of Mac1 with neither an ARP nor an IPv4 layer: parseEthernet
\* records the MAC and nothing else is extracted
ObsEthOnly == AssetInfo(0, Mac1, "", "", "", "", <<>>, EmptyMap, EmptyMap)

\* the arguments of the direct calls of UpdateAsset
CallObservations ==
    { ObsSsh(0), ObsHttp(0), ObsIpOnly(0), ObsNoIdentity, ObsPortList }

----------------------------------------------------------------------------
(* internal/storage *)

PortJSON(p) ==
    [port |-> p.Port, protocol |-> p.Protocol, state |-> p.State,
     service |-> p.Service, version |-> p.Version, banner |-> p.Banner,
     first_seen |-> p.FirstSeen, last_seen |-> p.LastSeen]

ServiceJSON(s) ==
    [name |-> s.Name, version |-> s.Version, port |-> s.Port,
     protocol |-> s.Protocol, banner |-> s.Banner,
     first_seen |-> s.FirstSeen, last_seen |-> s.LastSeen]

\* json.Marshal of *Asset followed by json.Unmarshal into a map: the exported
\* fields under their json tags, the mutex dropped
ToJSON(a) ==
    [id          |-> a.ID,
     ip_address  |-> a.IPAddress,
     mac_address |-> a.MACAddress,
     hostname    |-> a.Hostname,
     vendor      |-> a.Vendor,
     device_type |-> a.DeviceType,
     os_info     |-> [family |-> a.OSInfo.Family, version |-> a.OSInfo.Version,
                      kernel |-> a.OSInfo.Kernel, detection |-> a.OSInfo.Detection,
                      confidence |-> a.OSInfo.Confidence],
     open_ports  |-> LET b == a.OpenPorts
                     IN  [j \in { PortJSON(p) : p \in BagToSet(b) } |->
                            CopiesIn(CHOOSE p \in BagToSet(b) : PortJSON(p) = j, b)],
     services    |-> { ServiceJSON(s) : s \in a.Services },
     protocols   |-> a.Protocols,
     first_seen  |-> a.FirstSeen,
     last_seen   |-> a.LastSeen,
     last_update |-> a.LastUpdate,
     is_active   |-> a.IsActive,
     confidence  |-> a.Confidence,
     changes     |-> [i \in DOMAIN a.Changes |->
                        [timestamp   |-> a.Changes[i].Timestamp,
                         change_type |-> a.Changes[i].ChangeType,
                         old_value   |-> a.Changes[i].OldValue,
                         new_value   |-> a.Changes[i].NewValue,
                         description |-> a.Changes[i].Description]]]

\* MemoryStorage.SaveAsset of a *Asset (the default branch of the type
\* switch): ok is FALSE when no id can be extracted
MemorySaveAsset(data, a) ==
    LET assetMap == ToJSON(a)
    IN  IF assetMap.id = ""
        THEN [ok |-> FALSE, data |-> data]
        ELSE [ok |-> TRUE, data |-> (assetMap.id :> assetMap) @@ data]

\* FileStorage.SaveAsset of a *Asset: the value is not a
\* map[string]interface{}, so no id is extracted
FileSaveAsset(data, a) == [ok |-> FALSE, data |-> data]

SaveAsset(data, a) ==
    IF storageType = "memory" THEN MemorySaveAsset(data, a)
    ELSE FileSaveAsset(data, a)

\* the answer of GetAsset for an id the backend holds no document of
Missing == [missing |-> TRUE]

\* MemoryStorage.GetAsset and FileStorage.GetAsset
GetAsset(data, id) == IF id \in DOMAIN data THEN data[id] ELSE Missing

----------------------------------------------------------------------------
(* The asset manager *)

\* the workers of the pool
Workers == DOMAIN wstate

\* the locks: AssetManager.mutex, the mu of two assets, the mutex of the
\* storage backend
AssetLocks == {"asset1", "asset2"}
LockNames == {"table", "storage"} \cup AssetLocks

\* the goroutines that take them: two packet workers in UpdateAsset, the two
\* routines, a saveAsset goroutine, Stop in saveAllAssets, a caller of the
\* exported read functions (loadExistingAssets has returned before any of
\* them starts)
Goroutines == {"worker1", "worker2", "cleanup", "stats", "save", "main", "reader"}

\* a sync.RWMutex nobody holds or waits for
Free == [writer |-> "none", pending |-> "none", readers |-> {}]

\* a run whose engine was constructed and started without an error
Running == [phase |-> "started", err |-> FALSE, exit |-> 0]

NoMerge == [op |-> "none", obs |-> Nil, dup |-> FALSE]

\* the state after NewCaptureEngine and AssetManager.Start with storage
\* backend st, n workers and max_packets cap: the table is empty (no stored
\* document is a *Asset), both background routines run, no frame has been
\* read
InitBase(st, n, cap) ==
    /\ clock = 0
    /\ assets = EmptyMap
    /\ stats = [TotalAssets |-> 0, ActiveAssets |-> 0, NewAssets |-> 0,
                LastUpdate |-> 0, DeviceTypes |-> EmptyMap,
                OSDistribution |-> EmptyMap]
    /\ saveTasks = EmptyBag
    /\ store = EmptyMap
    /\ storageType = st
    /\ mgrStopped = FALSE
    /\ flushPending = {}
    /\ loops = {"cleanup", "stats"}
    /\ calls = 0
    /\ background = 0
    /\ packetChan = <<>>
    /\ yielded = 0
    /\ sourceClosed = FALSE
    /\ wstate = [w \in 1..n |-> "recv"]
    /\ wobs = [w \in 1..n |-> Nil]
    /\ packetsProcessed = [w \in 1..n |-> 0]
    /\ ceStopped = FALSE
    /\ merged = <<>>
    /\ last = NoMerge
    /\ mu = "none"
    /\ cs = [l \in {"cleanup", "stats"} |-> "idle"]
    /\ pend = [w \in 1..n |-> Nil]
    /\ saveRead = EmptyBag
    /\ whole = {}
    /\ flushed = {}
    /\ sent = <<>>
    /\ maxPackets = cap
    /\ engine = Running
    /\ held = [m \in LockNames |-> Free]
    /\ pc = [g \in Goroutines |-> <<>>]

\* the same, no helper being examined on its own
InitState(st, n, cap) ==
    /\ InitBase(st, n, cap)
    /\ input = Nil
    /\ output = NotCalled

\* the default configuration of the storage backend
Init == InitState("file", NumWorkers, MaxPackets)

\* either of the two backends that store locally
InitManager == \E st \in {"file", "memory"} : InitState(st, NumWorkers, MaxPackets)

\* a pool of one worker or of NumWorkers workers, with the cap or without
InitPipeline ==
    \E n \in {1, NumWorkers} : \E cap \in {0, MaxPackets} :
        InitState("file", n, cap)

\* AssetManager.Stop has returned: the command returns and the process ends
Returned == mgrStopped /\ flushPending = {}

\* the wall clock moves between two handlers, by the asset timeout or just
\* past it (single seconds pass while handlers run, see Reads)
Tick ==
    /\ UNCHANGED <<lockVars, histVars, cfgVars, callVars, orderVars>>
    /\ ~Returned
    /\ \E d \in {0} \cup (IF Seconds < MaxSeconds THEN {1} ELSE {}) :
         /\ clock + AssetTimeout * Minute + d <= MaxClock
         /\ clock' = clock + AssetTimeout * Minute + d
    /\ UNCHANGED <<assets, stats, saveTasks, store, stopVars, storageType,
                   calls, background, poolVars, last>>

Advance(r) == clock' = ClockAfter(r)

\* the table key UpdateAsset computes for assetInfo (line 80), read r[1]
MergeKey(assetInfo, r) == generateAssetID(assetInfo, r[1])

\* the asset UpdateAsset leaves under its key in table tbl: reads r[2] (now),
\* r[3] (the label read of NewAsset), r[4] and r[5] (the two conversions)
MergeResult(tbl, assetInfo, r) ==
    LET assetID == MergeKey(assetInfo, r)
    IN  IF assetID \in DOMAIN tbl
        THEN Update(tbl[assetID], assetInfo,
                    [now |-> r[2], ports |-> r[4], svcs |-> r[5]])
        ELSE NewAsset(assetInfo,
                      [now |-> r[2], id |-> r[3], ports |-> r[4], svcs |-> r[5]])

\* UpdateAsset starting a save only when it creates the asset
Merge_SaveOnce(assetInfo, r) ==
    LET assetID == MergeKey(assetInfo, r)
    IN  /\ assets' = (assetID :> MergeResult(assets, assetInfo, r)) @@ assets
        /\ stats' = IF assetID \in DOMAIN assets THEN stats
                    ELSE [stats EXCEPT !.NewAssets = @ + 1]
        /\ saveTasks' = IF assetID \in DOMAIN assets THEN saveTasks
                        ELSE saveTasks (+) SetToBag({assetID})
        /\ last' = [op |-> "merge", obs |-> assetInfo,
                     dup |-> last.op = "merge" /\ last.obs = assetInfo]
        /\ Advance(r)
        /\ UNCHANGED <<store, stopVars>>

\* AssetManager.UpdateAsset on a non-nil observation, under the table lock
Merge(assetInfo, r) ==
    LET assetID == MergeKey(assetInfo, r)
    IN  /\ assets' = (assetID :> MergeResult(assets, assetInfo, r)) @@ assets
        /\ stats' = IF assetID \in DOMAIN assets THEN stats
                    ELSE [stats EXCEPT !.NewAssets = @ + 1]
        /\ saveTasks' = saveTasks (+) SetToBag({assetID})
        /\ last' = [op |-> "merge", obs |-> assetInfo,
                     dup |-> last.op = "merge" /\ last.obs = assetInfo]
        /\ Advance(r)
        /\ UNCHANGED <<store, stopVars>>

\* a direct call of the exported UpdateAsset
UpdateAsset(assetInfo) ==
    /\ UNCHANGED <<lockVars, histVars, cfgVars, callVars, orderVars>>
    /\ ~mgrStopped   \* Stop is deferred until the workers are done (capture.go:86,105)
    /\ calls < MaxCalls
    /\ calls' = calls + 1
    /\ IF assetInfo = Nil
       THEN /\ last' = NoMerge
            /\ UNCHANGED <<timeVars, assets, stats, saveTasks, store, stopVars>>
       ELSE \E r \in Reads(5) : Merge(assetInfo, r)
    /\ UNCHANGED <<storageType, background, poolVars>>

\* the cutoff taken one second too early
Expired_OffByOne(now) ==
    { k \in DOMAIN assets :
        assets[k].IsActive /\ assets[k].LastSeen < now - AssetTimeout * Minute - 1 }

\* the cutoff including the assets seen exactly the timeout ago
Expired_AtCutoff(now) ==
    { k \in DOMAIN assets :
        assets[k].IsActive /\ assets[k].LastSeen <= now - AssetTimeout * Minute }

\* the assets cleanupInactiveAssets deactivates when it reads the time now
Expired(now) ==
    { k \in DOMAIN assets :
        assets[k].IsActive /\ assets[k].LastSeen < now - AssetTimeout * Minute }

\* the loop of cleanupInactiveAssets deleting the expired assets
ExpireAll_Delete(tbl, expired, tUpd, tRec) ==
    [k \in DOMAIN tbl \ expired |-> tbl[k]]

\* the loop of cleanupInactiveAssets over the table: SetInactive on each
\* expired asset
ExpireAll(tbl, expired, tUpd, tRec) ==
    [k \in DOMAIN tbl |->
        IF k \in expired THEN SetInactive(tbl[k], tUpd, tRec) ELSE tbl[k]]

\* cleanupInactiveAssets, one tick of cleanupRoutine: r[1] is the read of
\* line 267, r[2] and r[3] the two reads of SetInactive
cleanupInactiveAssets ==
    /\ UNCHANGED <<lockVars, histVars, cfgVars, callVars, orderVars>>
    /\ ~Returned
    /\ "cleanup" \in loops
    /\ \E r \in Reads(3) :
         LET expired == Expired(r[1])
             ids == { assets[k].ID : k \in expired }
         IN  /\ assets' = ExpireAll(assets, expired, r[2], r[3])
             /\ saveTasks' = saveTasks (+)
                    [id \in ids |-> Cardinality({ k \in expired : assets[k].ID = id })]
             /\ IF expired = {} THEN Advance(<<r[1]>>) ELSE Advance(r)
    /\ last' = [op |-> "expiry", obs |-> Nil, dup |-> FALSE]
    /\ UNCHANGED <<stats, store, stopVars, storageType, calls, background,
                   poolVars>>

\* a background step is taken: the steps are counted to bound the model
BackgroundStep ==
    /\ background < MaxBackground
    /\ background' = background + 1

\* the recomputation also resetting the new-asset counter
RecomputeStats_ResetNew(st, tbl, now) ==
    LET all == DOMAIN tbl
        dts == { tbl[k].DeviceType : k \in all } \ {""}
        oss == { tbl[k].OSInfo.Family : k \in all } \ {""}
    IN  [st EXCEPT
           !.TotalAssets = Cardinality(all),
           !.ActiveAssets = Cardinality({ k \in all : tbl[k].IsActive }),
           !.NewAssets = 0,
           !.DeviceTypes = [d \in dts |->
                 Cardinality({ k \in all : tbl[k].DeviceType = d })],
           !.OSDistribution = [f \in oss |->
                 Cardinality({ k \in all : tbl[k].OSInfo.Family = f })],
           !.LastUpdate = now]

\* the body of updateStats over table tbl, read of the time now: the
\* totals and the two histograms are rebuilt, NewAssets is not assigned
RecomputeStats(st, tbl, now) ==
    LET all == DOMAIN tbl
        dts == { tbl[k].DeviceType : k \in all } \ {""}
        oss == { tbl[k].OSInfo.Family : k \in all } \ {""}
    IN  [st EXCEPT
           !.TotalAssets = Cardinality(all),
           !.ActiveAssets = Cardinality({ k \in all : tbl[k].IsActive }),
           !.DeviceTypes = [d \in dts |->
                 Cardinality({ k \in all : tbl[k].DeviceType = d })],
           !.OSDistribution = [f \in oss |->
                 Cardinality({ k \in all : tbl[k].OSInfo.Family = f })],
           !.LastUpdate = now]

\* updateStats, one tick of statsUpdateRoutine
updateStats ==
    /\ UNCHANGED <<lockVars, histVars, cfgVars, callVars, orderVars>>
    /\ ~Returned
    /\ BackgroundStep
    /\ "stats" \in loops
    /\ \E r \in Reads(1) :
         /\ stats' = RecomputeStats(stats, assets, r[1])
         /\ Advance(r)
    /\ UNCHANGED <<assets, saveTasks, store, stopVars, storageType, calls,
                   poolVars, last>>

\* cleanupRoutine or statsUpdateRoutine takes the stopCh case of its select
\* (while a tick is also ready the select may still take the tick)
routineReturn(l) ==
    /\ UNCHANGED <<lockVars, histVars, cfgVars, callVars, orderVars>>
    /\ ~Returned
    /\ mgrStopped
    /\ l \in loops
    /\ loops' = loops \ {l}
    /\ UNCHANGED <<timeVars, assets, stats, saveTasks, store, mgrStopped,
                   flushPending, storageType, calls, poolVars, last>>

\* the same, counted as a background step
routineExit(l) == BackgroundStep /\ routineReturn(l)

\* one "go am.saveAsset(assetID)" goroutine runs
saveAsset(assetID) ==
    /\ UNCHANGED <<lockVars, histVars, cfgVars, callVars, orderVars>>
    /\ ~Returned
    /\ BackgroundStep
    /\ BagIn(assetID, saveTasks)
    /\ saveTasks' = saveTasks (-) SetToBag({assetID})
    /\ store' = IF assetID \in DOMAIN assets
                THEN SaveAsset(store, assets[assetID]).data
                ELSE store
    /\ UNCHANGED <<timeVars, assets, stats, stopVars, storageType, calls,
                   poolVars, last>>

\* AssetManager.Stop: close(stopCh), then saveAllAssets collects the assets
\* of the table under the read lock
StopManager ==
    /\ ~mgrStopped
    /\ mgrStopped' = TRUE
    /\ flushPending' = DOMAIN assets
    /\ UNCHANGED <<timeVars, assets, stats, saveTasks, store, loops,
                   storageType, last>>

\* a direct call of the exported Stop
Stop ==
    /\ UNCHANGED <<lockVars, histVars, cfgVars, callVars, orderVars>>
    /\ BackgroundStep
    /\ StopManager
    /\ UNCHANGED <<calls, poolVars>>

\* saveAllAssets saves one of the collected assets (no lock is held)
flushOne(k) ==
    /\ UNCHANGED lockVars
    /\ k \in flushPending
    /\ flushPending' = flushPending \ {k}
    /\ flushed' = flushed \cup {k}
    /\ UNCHANGED <<sent, cfgVars, callVars, orderVars>>
    /\ store' = SaveAsset(store, assets[k]).data
    /\ UNCHANGED <<timeVars, assets, stats, saveTasks, mgrStopped, loops,
                   storageType, calls, poolVars, last>>

\* the same, counted as a background step
flushAsset(k) == BackgroundStep /\ flushOne(k)

\* merges and expiry ticks of the manager, driven through UpdateAsset
Next ==
    \/ \E o \in CallObservations : UpdateAsset(o)
    \/ cleanupInactiveAssets
    \/ Tick

Spec == Init /\ [][Next]_vars

\* the arguments of the direct calls in the specification of the whole manager
ManagerObservations == { ObsHttp(0), ObsNoIdentity, Nil }

\* every operation of the manager
NextManager ==
    \/ \E o \in ManagerObservations : calls < MaxManagerCalls /\ UpdateAsset(o)
    \/ cleanupInactiveAssets
    \/ updateStats
    \/ \E id \in BagToSet(saveTasks) : saveAsset(id)
    \/ Stop
    \/ \E k \in flushPending : flushAsset(k)
    \/ \E l \in {"cleanup", "stats"} : routineExit(l)
    \/ Tick

SpecManager == InitManager /\ [][NextManager]_vars

\* observations of one device (Mac1) that differ in every field Asset.Update
\* merges: address, hostname, ports, services, protocols, OS guess
MergeObservations == { ObsHttp(0), ObsSsh(0), ObsDhcp(0), ObsEthOnly }

\* merges into one asset, and the expiry ticks
NextMerge ==
    \/ \E o \in MergeObservations : UpdateAsset(o)
    \/ cleanupInactiveAssets
    \/ Tick

SpecMerge == Init /\ [][NextMerge]_vars

\* an IPv4 frame of Ip2 with a multicast Ethernet source, a SYN+ACK from its
\* port 22
ObsIpOnlySsh ==
    AssetInfo(0, "", Ip2, "", "", "Linux/Unix", <<22>>, "22/tcp" :> "SSH",
              "ipv4" :> Ipv4Payload(Ip2, 64))

\* a direct call naming the device at Ip2, with no MAC
ObsIpOnlyNamed == AssetInfo(0, "", Ip2, "gateway", "", "", <<>>, EmptyMap, EmptyMap)

\* observations of Mac1 at two addresses, of Ip2 with no MAC, of Ip1 with
\* no MAC
IdentityObservations ==
    { ObsHttp(0), ObsSsh(0), ObsIpOnly(0), ObsIpOnlySsh, ObsIpOnlyNamed,
      AssetInfo(0, "", Ip1, "", "", "", <<>>, EmptyMap, EmptyMap) }

\* merges into assets keyed by MAC and keyed by IPv4, and the expiry ticks
NextIdentity ==
    \/ \E o \in IdentityObservations : UpdateAsset(o)
    \/ cleanupInactiveAssets
    \/ Tick

SpecIdentity == Init /\ [][NextIdentity]_vars

----------------------------------------------------------------------------
(* internal/capture: the worker pool *)

\* the test keeping only the observations that carry an IPv4
hasUsefulInfo_IpOnly(assetInfo) == assetInfo.IPAddress # ""

hasUsefulInfo(assetInfo) ==
    \/ assetInfo.IPAddress # ""
    \/ assetInfo.MACAddress # ""
    \/ assetInfo.Hostname # ""
    \/ Len(assetInfo.OpenPorts) > 0
    \/ DOMAIN assetInfo.Services # {}
    \/ DOMAIN assetInfo.Protocols # {}

\* ParsePacket on a frame, a frame being written as what its layers hold
ParsePacket(frame) == IF hasUsefulInfo(frame) THEN frame ELSE Nil

\* the frames of the capture, stamped ts by the capture source
Frames(ts) == { ObsHttp(ts), ObsDhcp(ts), ObsNothing(ts) }

\* the capture source yields a frame into the packet channel
Yield ==
    /\ UNCHANGED <<lockVars, flushed, cfgVars, callVars, orderVars>>
    /\ ~Returned
    /\ ~sourceClosed
    /\ yielded < MaxFrames
    /\ yielded' = yielded + 1
    /\ \E f \in Frames(yielded + 1) :
         /\ packetChan' = Append(packetChan, f)
         /\ sent' = Append(sent, f)
    /\ UNCHANGED <<timeVars, assets, stats, saveTasks, store, stopVars,
                   storageType, calls, background, sourceClosed, wstate, wobs,
                   packetsProcessed, ceStopped, merged, last>>

\* the capture source reaches end-of-stream and closes the channel
CloseSource ==
    /\ UNCHANGED <<lockVars, histVars, cfgVars, callVars, orderVars>>
    /\ ~Returned
    /\ ~sourceClosed
    /\ sourceClosed' = TRUE
    /\ UNCHANGED <<timeVars, assets, stats, saveTasks, store, stopVars,
                   storageType, calls, background, packetChan, yielded, wstate,
                   wobs, packetsProcessed, ceStopped, merged, last>>

\* a receive that leaves the frame in the channel
Receive_Keep(ch) == [frame |-> Head(ch), rest |-> ch]

\* a receive from the channel taking the frame yielded last
Receive_Last(ch) ==
    [frame |-> ch[Len(ch)], rest |-> SubSeq(ch, 1, Len(ch) - 1)]

\* "packet, ok := <-packetChan" on a non-empty channel: frames leave the
\* channel in the order the source yielded them
Receive(ch) == [frame |-> Head(ch), rest |-> Tail(ch)]

\* the cap taken one frame too late
AfterPacket_OffByOne(c) == IF maxPackets > 0 /\ c > maxPackets THEN "done" ELSE "recv"

\* the state of a worker whose counter has reached c
AfterPacket(c) == IF maxPackets > 0 /\ c >= maxPackets THEN "done" ELSE "recv"

\* packetWorker receives a frame and parses it; a frame that yields no
\* observation is counted at once
WorkerRecv(w) ==
    /\ UNCHANGED <<lockVars, histVars, cfgVars, callVars, orderVars>>
    /\ wstate[w] = "recv"
    /\ packetChan # <<>>
    /\ packetChan' = Receive(packetChan).rest
    /\ LET assetInfo == ParsePacket(Receive(packetChan).frame)
       IN  IF assetInfo = Nil
           THEN /\ packetsProcessed' = [packetsProcessed EXCEPT ![w] = @ + 1]
                /\ wstate' = [wstate EXCEPT ![w] = AfterPacket(packetsProcessed[w] + 1)]
                /\ UNCHANGED wobs
           ELSE /\ wobs' = [wobs EXCEPT ![w] = assetInfo]
                /\ wstate' = [wstate EXCEPT ![w] = "merge"]
                /\ UNCHANGED packetsProcessed
    /\ UNCHANGED <<timeVars, assets, stats, saveTasks, store, stopVars,
                   storageType, calls, background, yielded, sourceClosed,
                   ceStopped, merged, last>>

\* packetWorker calls UpdateAsset with its observation and counts the frame
WorkerMerge(w) ==
    /\ UNCHANGED <<lockVars, histVars, cfgVars, callVars, orderVars>>
    /\ wstate[w] = "merge"
    /\ \E r \in Reads(5) : Merge(wobs[w], r)
    /\ merged' = Append(merged, wobs[w])
    /\ wobs' = [wobs EXCEPT ![w] = Nil]
    /\ packetsProcessed' = [packetsProcessed EXCEPT ![w] = @ + 1]
    /\ wstate' = [wstate EXCEPT ![w] = AfterPacket(packetsProcessed[w] + 1)]
    /\ UNCHANGED <<storageType, calls, background, packetChan, yielded,
                   sourceClosed, ceStopped>>

\* packetWorker returns: the channel is closed and drained, or the stop
\* channel is closed (the select takes either case that is ready)
WorkerExit(w) ==
    /\ UNCHANGED <<lockVars, histVars, cfgVars, callVars, orderVars>>
    /\ wstate[w] = "recv"
    /\ \/ sourceClosed /\ packetChan = <<>>
       \/ ceStopped
    /\ wstate' = [wstate EXCEPT ![w] = "done"]
    /\ UNCHANGED <<timeVars, assets, stats, saveTasks, store, stopVars,
                   storageType, calls, background, packetChan, yielded,
                   sourceClosed, wobs, packetsProcessed, ceStopped, merged, last>>

\* CaptureEngine.Stop
CaptureStop ==
    /\ UNCHANGED <<lockVars, histVars, cfgVars, callVars, orderVars>>
    /\ ~ceStopped
    /\ ceStopped' = TRUE
    /\ UNCHANGED <<timeVars, assets, stats, saveTasks, store, stopVars,
                   storageType, calls, background, packetChan, yielded,
                   sourceClosed, wstate, wobs, packetsProcessed, merged, last>>

\* processPackets returning on the stop signal without waiting for its workers
processPacketsReturn_NoWait ==
    /\ UNCHANGED <<lockVars, histVars, cfgVars, callVars, orderVars>>
    /\ ceStopped
    /\ StopManager
    /\ UNCHANGED <<calls, background, poolVars>>

\* processPackets returns (stop signal received, every worker done) and the
\* deferred AssetManager.Stop runs
processPacketsReturn ==
    /\ UNCHANGED <<lockVars, histVars, cfgVars, callVars, orderVars>>
    /\ ceStopped
    /\ \A w \in Workers : wstate[w] = "done"
    /\ StopManager
    /\ UNCHANGED <<calls, background, poolVars>>

NextPipeline ==
    \/ Yield
    \/ CloseSource
    \/ \E w \in Workers : WorkerRecv(w)
    \/ \E w \in Workers : WorkerMerge(w)
    \/ \E w \in Workers : WorkerExit(w)
    \/ CaptureStop
    \/ processPacketsReturn
    \/ \E k \in flushPending : flushAsset(k)

SpecPipeline == InitPipeline /\ [][NextPipeline]_vars

----------------------------------------------------------------------------
(* The handlers of the manager in steps, under AssetManager.mutex.  The      *)
(* actions above take a handler as one step; here a handler is the steps    *)
(* between its Lock and its deferred Unlock, and the saves read the asset   *)
(* they were handed after their RUnlock, as the code does.                   *)

WorkerName(w) == "worker" \o ToString(w)

\* a Lock that never waits
CanLock_Always(m) == TRUE

\* mutex.Lock and mutex.RLock return when no handler holds the write lock
\* (a read lock is taken and released within one step)
CanLock(m) == m = "none"

\* the n time.Now() reads of one step of a handler: here the clock moves
\* between the steps
StepReads(n) == { [i \in 1..n |-> clock] }

\* the reads of one handler, as a record for Update and NewAsset
ReadsOf(r) == [now |-> r[2], id |-> r[3], ports |-> r[4], svcs |-> r[5]]

\* Asset.Update after its last field assignment (line 240) and before the
\* journal, the timestamps, the active flag and the confidence are written
UpdateFields(a, assetInfo, r) ==
    LET u == Update(a, assetInfo, r)
    IN  [u EXCEPT !.Changes = a.Changes, !.LastSeen = a.LastSeen,
                  !.LastUpdate = a.LastUpdate, !.IsActive = a.IsActive,
                  !.Confidence = a.Confidence]

\* UpdateAsset takes the write lock (line 77)
WorkerLock(w) ==
    /\ UNCHANGED <<histVars, cfgVars, callVars, orderVars>>
    /\ ~Returned
    /\ wstate[w] = "merge"
    /\ CanLock(mu)
    /\ mu' = WorkerName(w)
    /\ wstate' = [wstate EXCEPT ![w] = "locked"]
    /\ UNCHANGED <<timeVars, assets, stats, saveTasks, store, stopVars,
                   storageType, calls, background, packetChan, yielded,
                   sourceClosed, wobs, packetsProcessed, ceStopped, merged,
                   last, cs, pend, saveRead, whole>>

\* UpdateAsset looks its key up and creates the asset, or Update writes the
\* fields of the existing one
WorkerFields(w) ==
    /\ UNCHANGED <<histVars, cfgVars, callVars, orderVars>>
    /\ wstate[w] = "locked"
    /\ \E r \in StepReads(5) :
         LET assetID == MergeKey(wobs[w], r)
             exists == assetID \in DOMAIN assets
             result == MergeResult(assets, wobs[w], r)
         IN  /\ assets' = (assetID :>
                             (IF exists
                              THEN UpdateFields(assets[assetID], wobs[w], ReadsOf(r))
                              ELSE result)) @@ assets
             /\ stats' = IF exists THEN stats
                         ELSE [stats EXCEPT !.NewAssets = @ + 1]
             /\ pend' = [pend EXCEPT ![w] = [key |-> assetID, asset |-> result]]
             /\ Advance(r)
    /\ wstate' = [wstate EXCEPT ![w] = "updating"]
    /\ UNCHANGED <<saveTasks, store, stopVars, storageType, calls, background,
                   packetChan, yielded, sourceClosed, wobs, packetsProcessed,
                   ceStopped, merged, last, mu, cs, saveRead, whole>>

\* Update appends its journal entries and writes the timestamps; UpdateAsset
\* starts the save goroutine and returns, releasing the lock; the worker
\* counts the frame
WorkerCommit(w) ==
    /\ UNCHANGED <<histVars, cfgVars, callVars, orderVars>>
    /\ wstate[w] = "updating"
    /\ assets' = (pend[w].key :> pend[w].asset) @@ assets
    /\ whole' = whole \cup {ToJSON(pend[w].asset)}
    /\ saveTasks' = saveTasks (+) SetToBag({pend[w].key})
    /\ mu' = "none"
    /\ pend' = [pend EXCEPT ![w] = Nil]
    /\ last' = [op |-> "merge", obs |-> wobs[w],
                 dup |-> last.op = "merge" /\ last.obs = wobs[w]]
    /\ merged' = Append(merged, wobs[w])
    /\ wobs' = [wobs EXCEPT ![w] = Nil]
    /\ packetsProcessed' = [packetsProcessed EXCEPT ![w] = @ + 1]
    /\ wstate' = [wstate EXCEPT ![w] = AfterPacket(packetsProcessed[w] + 1)]
    /\ UNCHANGED <<timeVars, stats, store, stopVars, storageType, calls,
                   background, packetChan, yielded, sourceClosed, ceStopped,
                   cs, saveRead>>

\* a tick of cleanupRoutine or statsUpdateRoutine: the handler takes the
\* write lock (lines 263, 302)
RoutineLock(l) ==
    /\ UNCHANGED <<histVars, cfgVars, callVars, orderVars>>
    /\ ~Returned
    /\ l \in loops
    /\ cs[l] = "idle"
    /\ CanLock(mu)
    /\ mu' = l
    /\ cs' = [cs EXCEPT ![l] = "locked"]
    /\ UNCHANGED <<timeVars, assets, stats, saveTasks, store, stopVars,
                   storageType, calls, background, poolVars, last, pend,
                   saveRead, whole>>

\* cleanupInactiveAssets runs its loop and returns, releasing the lock
CleanupRun ==
    /\ UNCHANGED <<histVars, cfgVars, callVars, orderVars>>
    /\ cs["cleanup"] = "locked"
    /\ \E r \in StepReads(3) :
         LET expired == Expired(r[1])
             ids == { assets[k].ID : k \in expired }
             tbl == ExpireAll(assets, expired, r[2], r[3])
         IN  /\ assets' = tbl
             /\ whole' = whole \cup { ToJSON(tbl[k]) : k \in expired }
             /\ saveTasks' = saveTasks (+)
                    [id \in ids |-> Cardinality({ k \in expired : assets[k].ID = id })]
             /\ IF expired = {} THEN Advance(<<r[1]>>) ELSE Advance(r)
    /\ last' = [op |-> "expiry", obs |-> Nil, dup |-> FALSE]
    /\ mu' = "none"
    /\ cs' = [cs EXCEPT !["cleanup"] = "idle"]
    /\ UNCHANGED <<stats, store, stopVars, storageType, calls, background,
                   poolVars, pend, saveRead>>

\* updateStats recomputes the statistics and returns, releasing the lock
StatsRun ==
    /\ UNCHANGED <<histVars, cfgVars, callVars, orderVars>>
    /\ cs["stats"] = "locked"
    /\ \E r \in StepReads(1) :
         /\ stats' = RecomputeStats(stats, assets, r[1])
         /\ Advance(r)
    /\ mu' = "none"
    /\ cs' = [cs EXCEPT !["stats"] = "idle"]
    /\ UNCHANGED <<assets, saveTasks, store, stopVars, storageType, calls,
                   background, poolVars, last, pend, saveRead, whole>>

\* a saveAsset goroutine reads the pointer of its asset under the read lock
\* (lines 215-221)
SaveLookup(assetID) ==
    /\ UNCHANGED <<histVars, cfgVars, callVars, orderVars>>
    /\ ~Returned
    /\ BagIn(assetID, saveTasks)
    /\ CanLock(mu)
    /\ saveTasks' = saveTasks (-) SetToBag({assetID})
    /\ saveRead' = IF assetID \in DOMAIN assets
                   THEN saveRead (+) SetToBag({assetID})
                   ELSE saveRead
    /\ UNCHANGED <<timeVars, assets, stats, store, stopVars, storageType,
                   calls, background, poolVars, last, mu, cs, pend, whole>>

\* the goroutine hands the asset to the storage, which serialises it
\* (line 223); no lock is held
SaveStore(k) ==
    /\ UNCHANGED <<histVars, cfgVars, callVars, orderVars>>
    /\ ~Returned
    /\ BagIn(k, saveRead)
    /\ saveRead' = saveRead (-) SetToBag({k})
    /\ store' = SaveAsset(store, assets[k]).data
    /\ UNCHANGED <<timeVars, assets, stats, saveTasks, stopVars, storageType,
                   calls, background, poolVars, last, mu, cs, pend, whole>>

\* the capture source yields a frame that carries an observation (the
\* other frames never reach the manager)
LockedYield ==
    /\ yielded < MaxLockFrames
    /\ Yield
    /\ hasUsefulInfo(packetChan'[Len(packetChan')])

\* the wall clock moves past the asset timeout, the jump after which an
\* expiry acts
LockedTick == Tick /\ Seconds' # 0

\* the memory backend, whose SaveAsset serialises the asset
InitLock == InitState("memory", NumWorkers, MaxPackets)

NextLock ==
    \/ LockedYield
    \/ \E w \in Workers : WorkerRecv(w)
    \/ \E w \in Workers : WorkerLock(w)
    \/ \E w \in Workers : WorkerFields(w)
    \/ \E w \in Workers : WorkerCommit(w)
    \/ \E l \in {"cleanup", "stats"} : RoutineLock(l)
    \/ CleanupRun
    \/ StatsRun
    \/ \E id \in BagToSet(saveTasks) : SaveLookup(id)
    \/ \E k \in BagToSet(saveRead) : SaveStore(k)
    \/ LockedTick

SpecLock == InitLock /\ [][NextLock]_vars

----------------------------------------------------------------------------
(* The whole run: the capture call with the manager's routines, and the     *)
(* scheduling it relies on                                                   *)

\* a stop-time save of a collected asset
Flush(k) == flushOne(k) /\ UNCHANGED background

\* a routine takes the stopCh case of its select
RoutineStop(l) == routineReturn(l) /\ UNCHANGED background

NextRun ==
    \/ yielded < MaxRunFrames /\ Yield
    \/ CloseSource
    \/ \E w \in Workers : WorkerRecv(w)
    \/ \E w \in Workers : WorkerMerge(w)
    \/ \E w \in Workers : WorkerExit(w)
    \/ CaptureStop
    \/ processPacketsReturn
    \/ \E k \in flushPending : Flush(k)
    \/ cleanupInactiveAssets
    \/ \E l \in {"cleanup", "stats"} : RoutineStop(l)

\* a step of a goroutine that is not waiting for the capture source, for a
\* ticker or for the stop signal
Progress ==
    \/ \E w \in Workers : WorkerRecv(w) \/ WorkerMerge(w) \/ WorkerExit(w)
    \/ processPacketsReturn
    \/ \E k \in flushPending : Flush(k)
    \/ \E l \in {"cleanup", "stats"} : RoutineStop(l)

\* The scheduler runs a goroutine that can take a step: while some worker
\* can receive, merge or return, or processPackets, saveAllAssets or a
\* stopped routine can go on, one of them does.  Nothing makes the capture
\* source yield or reach end-of-stream, a ticker fire, or anyone call
\* CaptureEngine.Stop.
FairRun == WF_vars(Progress)

SpecRun == Init /\ [][NextRun]_vars /\ FairRun

----------------------------------------------------------------------------
(* The start of the command: cmd (offlineCmd, liveCmd), NewCaptureEngine and *)
(* StartOfflineCapture / StartLiveCapture                                    *)

\* the switch of NewCaptureEngine on cfg.Storage.Type (lines 33-40): the
\* constructor of the file backend may fail, the one of the memory backend
\* cannot
NewStorage(type, fails) ==
    IF type = "file"
    THEN [type |-> "file", err |-> fails]
    ELSE [type |-> "memory", err |-> FALSE]

\* NewCaptureEngine: a backend whose construction failed is replaced by the
\* memory backend (lines 42-45); the function returns no error
NewCaptureEngine(type, fails) ==
    LET stor == NewStorage(type, fails)
    IN  [storage |-> IF stor.err THEN "memory" ELSE stor.type,
         err |-> stor.err]

\* the command constructs the engine
Construct ==
    /\ engine.phase = "new"
    /\ \E fails \in BOOLEAN :
         LET ce == NewCaptureEngine(storageType, fails)
         IN  /\ storageType' = ce.storage
             /\ engine' = [engine EXCEPT !.phase = "constructed", !.err = ce.err]
    /\ UNCHANGED <<timeVars, assets, stats, saveTasks, store, stopVars, calls,
                   background, poolVars, last, lockVars, histVars, maxPackets,
                   callVars, orderVars>>

\* pcap.OpenOffline or pcap.OpenLive fails: the Start function returns the
\* error and the command exits with code 1
OpenFails ==
    /\ engine.phase = "constructed"
    /\ engine' = [engine EXCEPT !.phase = "failed", !.exit = 1]
    /\ UNCHANGED <<timeVars, assets, stats, saveTasks, store, stopVars,
                   storageType, calls, background, poolVars, last, lockVars,
                   histVars, maxPackets,
                   callVars, orderVars>>

\* the type assertion assetInterface.(*Asset): a stored value is a *Asset
\* when it has the fields of the struct; a document has the keys of the json
\* tags
IsAssetPointer(v) == "ID" \in DOMAIN v

\* loadExistingAssets: the values GetAllAssets returns that are *Asset are
\* put in the table under their ID, the others are passed over
loadExistingAssets(tbl, data) ==
    LET loaded == { v \in { data[k] : k \in DOMAIN data } : IsAssetPointer(v) }
    IN  [id \in { v.ID : v \in loaded } |->
            CHOOSE v \in loaded : v.ID = id] @@ tbl

\* the capture is opened: AssetManager.Start loads the stored assets and
\* starts the two routines, and processPackets starts the workers
StartCapture ==
    /\ engine.phase = "constructed"
    /\ engine' = [engine EXCEPT !.phase = "started"]
    /\ assets' = loadExistingAssets(assets, store)
    /\ loops' = {"cleanup", "stats"}
    /\ wstate' = [w \in 1..NumWorkers |-> "recv"]
    /\ wobs' = [w \in 1..NumWorkers |-> Nil]
    /\ packetsProcessed' = [w \in 1..NumWorkers |-> 0]
    /\ UNCHANGED <<timeVars, stats, saveTasks, store, mgrStopped,
                   flushPending, storageType, calls, background, packetChan,
                   yielded, sourceClosed, ceStopped, merged, last, lockVars,
                   histVars, maxPackets,
                   callVars, orderVars>>

\* no routine and no worker runs yet: the run is in phase ph and the storage
\* backend holds the documents data
NotStarted(ph, data) ==
    /\ clock = 0
    /\ assets = EmptyMap
    /\ stats = [TotalAssets |-> 0, ActiveAssets |-> 0, NewAssets |-> 0,
                LastUpdate |-> 0, DeviceTypes |-> EmptyMap,
                OSDistribution |-> EmptyMap]
    /\ saveTasks = EmptyBag
    /\ store = data
    /\ storageType \in {"file", "memory"}
    /\ mgrStopped = FALSE
    /\ flushPending = {}
    /\ loops = {}
    /\ calls = 0
    /\ background = 0
    /\ packetChan = <<>>
    /\ yielded = 0
    /\ sourceClosed = FALSE
    /\ wstate = <<>>
    /\ wobs = <<>>
    /\ packetsProcessed = <<>>
    /\ ceStopped = FALSE
    /\ merged = <<>>
    /\ last = NoMerge
    /\ mu = "none"
    /\ cs = [l \in {"cleanup", "stats"} |-> "idle"]
    /\ pend = [w \in 1..NumWorkers |-> Nil]
    /\ saveRead = EmptyBag
    /\ whole = {}
    /\ flushed = {}
    /\ sent = <<>>
    /\ maxPackets = MaxPackets
    /\ engine = [phase |-> ph, err |-> FALSE, exit |-> 0]
    /\ held = [m \in LockNames |-> Free]
    /\ pc = [g \in Goroutines |-> <<>>]
    /\ input = Nil
    /\ output = NotCalled

\* the command has been invoked with the file or the memory backend
\* configured: nothing is constructed, the backend holds nothing
InitStart == NotStarted("new", EmptyMap)

Started == engine.phase = "started"

NextStart ==
    \/ Construct
    \/ OpenFails
    \/ StartCapture
    \/ Started /\ yielded < MaxRunFrames /\ Yield
    \/ Started /\ CloseSource
    \/ \E w \in Workers : WorkerRecv(w)
    \/ \E w \in Workers : WorkerMerge(w)
    \/ \E w \in Workers : WorkerExit(w)
    \/ \E id \in BagToSet(saveTasks) : saveAsset(id)
    \/ Started /\ CaptureStop
    \/ processPacketsReturn
    \/ \E k \in flushPending : Flush(k)

SpecStart == InitStart /\ [][NextStart]_vars

\* the assets of an earlier run: Mac1 seen on port 80, then on port 22 too;
\* the device at Ip2 that has no MAC
PreviousAssets ==
    LET r == [now |-> 0, id |-> 0, ports |-> 0, svcs |-> 0]
    IN  { NewAsset(ObsHttp(0), r),
          Update(NewAsset(ObsHttp(0), r), ObsSsh(0), r),
          NewAsset(ObsIpOnly(0), r) }

RECURSIVE SaveEach(_, _)
\* SaveAsset of the memory backend on each asset of set as
SaveEach(data, as) ==
    IF as = {} THEN data
    ELSE LET a == CHOOSE x \in as : TRUE
         IN  SaveEach(MemorySaveAsset(data, a).data, as \ {a})

\* the engine is constructed on a backend that holds the documents an
\* earlier run saved of some of its assets
InitReload ==
    \E as \in SUBSET PreviousAssets :
        /\ \A a, b \in as : a.ID = b.ID => a = b
        /\ NotStarted("constructed", SaveEach(EmptyMap, as))

\* the observations of the new run: the devices of the earlier run
ReloadObservations == { ObsHttp(0), ObsSsh(0), ObsIpOnly(0) }

\* the manager starts, then merges, saves and expires as in any run
NextReload ==
    \/ StartCapture
    \/ Started /\ \E o \in ReloadObservations :
                     calls < MaxManagerCalls /\ UpdateAsset(o)
    \/ \E id \in BagToSet(saveTasks) : saveAsset(id)
    \/ cleanupInactiveAssets
    \/ Tick

SpecReload == InitReload /\ [][NextReload]_vars

----------------------------------------------------------------------------
(* Helpers examined on their own: the state holds the argument (input) and, *)
(* once the helper has been called, its result (output)                      *)

\* the rest of the state while a helper is examined
InitHelper == InitBase("file", NumWorkers, MaxPackets)

\* the state of the manager, of the pool and of the run
baseVars == <<timeVars, assets, stats, saveTasks, store, stopVars, storageType,
              calls, background, poolVars, last, lockVars, histVars, cfgVars>>

\* every variable but input and output
restVars == <<baseVars, orderVars>>

\* the sequences over set S of length at most n
SeqsUpTo(S, n) == UNION { [1..m -> S] : m \in 0..n }

\* the switch of setBPFFilter: the clause appended for a protocol name,
\* none for a name the switch has no case for
Clause(protocol) ==
    CASE protocol = "arp"   -> <<"arp">>
      [] protocol = "dhcp"  -> <<"port 67 or port 68">>
      [] protocol = "dns"   -> <<"port 53">>
      [] protocol = "http"  -> <<"port 80">>
      [] protocol = "https" -> <<"port 443">>
      [] protocol = "smb"   -> <<"port 445 or port 139">>
      [] protocol = "mdns"  -> <<"port 5353">>
      [] OTHER              -> <<>>

RECURSIVE BuildFilters(_, _, _)
\* the loop of setBPFFilter over cfg.Parser.EnabledProtocols from index i,
\* filters being the clauses appended so far
BuildFilters(protocols, i, filters) ==
    IF i > Len(protocols) THEN filters
    ELSE BuildFilters(protocols, i + 1, filters \o Clause(protocols[i]))

RECURSIVE JoinLoop(_, _, _)
\* the loop of joinFilters from index i (result += " or " + filters[i])
JoinLoop(filters, i, result) ==
    IF i > Len(filters) THEN result
    ELSE JoinLoop(filters, i + 1, result \o " or " \o filters[i])

\* joinFilters returning its first clause alone
joinFilters_FirstOnly(filters) ==
    IF Len(filters) = 0 THEN "" ELSE filters[1]

joinFilters(filters) ==
    IF Len(filters) = 0 THEN ""
    ELSE IF Len(filters) = 1 THEN filters[1]
    ELSE JoinLoop(filters, 2, filters[1])

\* setBPFFilter returned without calling handle.SetBPFFilter
NoFilter == [installed |-> FALSE, filter |-> ""]

\* setBPFFilter: the filter handed to handle.SetBPFFilter, if any
setBPFFilter(protocols) ==
    LET filters == BuildFilters(protocols, 1, <<>>)
    IN  IF Len(filters) > 0
        THEN [installed |-> TRUE, filter |-> "(" \o joinFilters(filters) \o ")"]
        ELSE NoFilter

\* the names a configuration may list: the seven the switch knows and one
\* it does not
ProtocolNames == {"arp", "dhcp", "dns", "http", "https", "smb", "mdns", "icmp"}

\* StartLiveCapture calls setBPFFilter on the opened handle
InstallFilter ==
    /\ output = NotCalled
    /\ output' = Result(setBPFFilter(input))
    /\ UNCHANGED <<input, restVars>>

\* parser.enabled_protocols is any list of at most MaxProtocols names
InitFilter ==
    /\ InitHelper
    /\ input \in SeqsUpTo(ProtocolNames, MaxProtocols)
    /\ output = NotCalled

NextFilter == InstallFilter

SpecFilter == InitFilter /\ [][NextFilter]_vars

\* the vendors getVendorFromMAC returns (five virtual, one physical) and
\* the empty vendor of an unknown OUI
Vendors == VirtualVendors \cup {"Dell", ""}

\* a server port, two web ports, a port of both tables' complement, and DNS
ClassifyPorts == {22, 53, 80, 8443, 9999}

\* the three guesses of guessOSFromTTL, a guess of guessOSFromUserAgent and
\* none
OSGuesses == {"Linux/Unix", "Windows", "Cisco/Network Device", "Linux", ""}

\* NewAsset and Asset.Update call classifyDeviceType on the observation
Classify ==
    /\ output = NotCalled
    /\ output' = Result(classifyDeviceType(input))
    /\ UNCHANGED <<input, restVars>>

\* an observation with any vendor, any list of at most MaxPortList open
\* ports and any OS guess
InitClassify ==
    /\ InitHelper
    /\ \E v \in Vendors, ports \in SeqsUpTo(ClassifyPorts, MaxPortList),
          os \in OSGuesses :
          input = AssetInfo(0, Mac1, Ip1, "", v, os, ports, EmptyMap, EmptyMap)
    /\ output = NotCalled

NextClassify == Classify

SpecClassify == InitClassify /\ [][NextClassify]_vars

\* Strings the parser searches are sequences of characters.
UpperCase == <<"A", "B", "C", "D", "E", "F", "G", "H", "I", "J", "K", "L", "M", "N", "O", "P", "Q", "R", "S", "T", "U", "V", "W", "X", "Y", "Z">>
LowerCase == <<"a", "b", "c", "d", "e", "f", "g", "h", "i", "j", "k", "l", "m", "n", "o", "p", "q", "r", "s", "t", "u", "v", "w", "x", "y", "z">>

\* strings.ToLower on one character and on a string
LowerChar(c) ==
    IF \E i \in DOMAIN UpperCase : UpperCase[i] = c
    THEN LowerCase[CHOOSE i \in DOMAIN UpperCase : UpperCase[i] = c]
    ELSE c
ToLower(str) == [i \in DOMAIN str |-> LowerChar(str[i])]

\* strings.Contains
Contains(str, substr) ==
    \E i \in 1..(Len(str) - Len(substr) + 1) :
        SubSeq(str, i, i + Len(substr) - 1) = substr

\* the tokens guessOSFromUserAgent searches for
TokWindows == <<"w", "i", "n", "d", "o", "w", "s">>
TokMacOsX == <<"m", "a", "c", " ", "o", "s", " ", "x">>
TokMacos == <<"m", "a", "c", "o", "s">>
TokLinux == <<"l", "i", "n", "u", "x">>
TokAndroid == <<"a", "n", "d", "r", "o", "i", "d">>
TokIphone == <<"i", "p", "h", "o", "n", "e">>
TokIpad == <<"i", "p", "a", "d">>

guessOSFromUserAgent(userAgent) ==
    LET ua == ToLower(userAgent)
    IN  IF Contains(ua, TokWindows) THEN "Windows"
        ELSE IF Contains(ua, TokMacOsX) \/ Contains(ua, TokMacos) THEN "macOS"
        ELSE IF Contains(ua, TokLinux) THEN "Linux"
        ELSE IF Contains(ua, TokAndroid) THEN "Android"
        ELSE IF Contains(ua, TokIphone) \/ Contains(ua, TokIpad) THEN "iOS"
        ELSE ""

\* the platform words of User-Agent headers, as browsers spell them, and
\* one that names no system
Pieces ==
    { <<"W", "i", "n", "d", "o", "w", "s">>, <<"M", "a", "c", " ", "O", "S", " ", "X">>, <<"m", "a", "c", "O", "S">>, <<"L", "i", "n", "u", "x">>,
      <<"L", "I", "N", "U", "X">>, <<"A", "n", "d", "r", "o", "i", "d">>, <<"i", "P", "h", "o", "n", "e">>,
      <<"i", "P", "a", "d">>, <<"X", "1", "1">> }

RECURSIVE JoinPieces(_)
\* a User-Agent made of the pieces ps, separated by "; "
JoinPieces(ps) ==
    IF Len(ps) = 0 THEN <<>>
    ELSE IF Len(ps) = 1 THEN ps[1]
    ELSE ps[1] \o <<";", " ">> \o JoinPieces(Tail(ps))

\* parseHTTP calls guessOSFromUserAgent on the User-Agent header
GuessOS ==
    /\ output = NotCalled
    /\ output' = Result(guessOSFromUserAgent(input))
    /\ UNCHANGED <<input, restVars>>

\* a User-Agent of at most MaxPieces platform words
InitUserAgent ==
    /\ InitHelper
    /\ input \in { JoinPieces(ps) : ps \in SeqsUpTo(Pieces, MaxPieces) }
    /\ output = NotCalled

NextUserAgent == GuessOS

SpecUserAgent == InitUserAgent /\ [][NextUserAgent]_vars

\* A packet is written by its layers: eth is "none", "unicast" or
\* "multicast" (the source MAC), arp is "none" or the ARP operation, ip is
\* "none", "bare" (no transport layer decoded), "synack" or "ack" (a TCP
\* segment from port 22) or "udp" (a datagram from port 5000).

guessOSFromTTL(ttl) ==
    IF ttl <= 64 THEN "Linux/Unix"
    ELSE IF ttl <= 128 THEN "Windows"
    ELSE IF ttl <= 255 THEN "Cisco/Network Device"
    ELSE ""

\* the source MAC is recorded unless it is a multicast address; the OUI of
\* Mac1 is not in the vendor table
parseEthernet(assetInfo, eth) ==
    IF eth = "multicast" THEN assetInfo
    ELSE [assetInfo EXCEPT !.MACAddress = Mac1, !.Vendor = ""]

parseARP(assetInfo, arp) ==
    IF arp \in {"request", "reply"}
    THEN [assetInfo EXCEPT
            !.IPAddress = Ip1, !.MACAddress = Mac1, !.Vendor = "",
            !.Protocols = ("arp" :> [operation |-> arp, src_ip |-> Ip1,
                                     src_mac |-> Mac1]) @@ @]
    ELSE assetInfo

parseIPv4(assetInfo, ttl) ==
    [assetInfo EXCEPT
        !.IPAddress = Ip2, !.OSGuess = guessOSFromTTL(ttl),
        !.Protocols = ("ipv4" :> Ipv4Payload(Ip2, ttl)) @@ @]

\* a segment from port 22 (identifyService: SSH), without application layer
parseTCP(assetInfo, syn, ack) ==
    [assetInfo EXCEPT
        !.OpenPorts = IF syn /\ ack THEN Append(@, 22) ELSE @,
        !.Services = ("22/tcp" :> "SSH") @@ @,
        !.Protocols = ("tcp" :> [src_port |-> 22, syn |-> syn, ack |-> ack]) @@ @]

\* a datagram between ports no protocol parser is bound to
parseUDP(assetInfo) ==
    [assetInfo EXCEPT !.Protocols = ("udp" :> [src_port |-> 5000]) @@ @]

\* ParsePacket up to its test of the extracted observation (lines 40-75)
Extract(packet, enabledProtocols) ==
    LET new == AssetInfo(0, "", "", "", "", "", <<>>, EmptyMap, EmptyMap)
        eth == IF packet.eth # "none" THEN parseEthernet(new, packet.eth) ELSE new
        arp == IF "arp" \in enabledProtocols /\ packet.arp # "none"
               THEN parseARP(eth, packet.arp) ELSE eth
        ip  == IF packet.ip # "none" THEN parseIPv4(arp, 64) ELSE arp
        tcp == IF packet.ip \in {"synack", "ack"}
               THEN parseTCP(ip, packet.ip = "synack", TRUE) ELSE ip
    IN  IF packet.ip = "udp" THEN parseUDP(tcp) ELSE tcp

Packets ==
    [eth : {"none", "unicast", "multicast"},
     arp : {"none", "request", "reverse-request"},
     ip  : {"none", "bare", "synack", "ack", "udp"}]

\* packetWorker calls ParsePacket on the packet it received
Parse ==
    /\ output = NotCalled
    /\ output' = Result(ParsePacket(Extract(input.packet, input.enabled)))
    /\ UNCHANGED <<input, restVars>>

\* packetWorker hands the observation to the manager, when there is one
\* ("if assetInfo != nil")
Handle ==
    /\ output.called
    /\ output.value # Nil
    /\ calls = 0
    /\ UpdateAsset(output.value)

\* a worker has received a packet; ARP parsing is enabled or not
InitParser ==
    /\ InitHelper
    /\ \E pk \in Packets, en \in {{}, {"arp"}} :
          input = [packet |-> pk, enabled |-> en]
    /\ output = NotCalled

NextParser == Parse \/ Handle

SpecParser == InitParser /\ [][NextParser]_vars

----------------------------------------------------------------------------
(* internal/parser: the options of a DHCP request *)

MaxOptionBytes == 5  \* bytes after the fixed part of a DHCP payload

\* the byte values told apart by parseDHCPOptions: pad, a length or a type
\* with no case, the three types with a case, end
OptionBytes == {0, 1, 12, 15, 60, 255}

\* options[i], Go's indices starting at 0
At(options, i) == options[i + 1]

\* options[lo : hi], converted by string(optionData): the bytes themselves
Slice(options, lo, hi) == [j \in 1..(hi - lo) |-> options[lo + j]]

\* the switch keeping the value an earlier option of the same type gave
Report_KeepFirst(result, optionType, optionData) ==
    CASE optionType = 12 /\ ~HasKey(result, "hostname")
             -> ("hostname" :> optionData) @@ result
      [] optionType = 15 /\ ~HasKey(result, "domain")
             -> ("domain" :> optionData) @@ result
      [] optionType = 60 /\ ~HasKey(result, "vendor_class")
             -> ("vendor_class" :> optionData) @@ result
      [] OTHER -> result

\* the switch on optionType: result[key] = string(optionData)
Report(result, optionType, optionData) ==
    CASE optionType = 12 -> ("hostname" :> optionData) @@ result
      [] optionType = 15 -> ("domain" :> optionData) @@ result
      [] optionType = 60 -> ("vendor_class" :> optionData) @@ result
      [] OTHER -> result

\* the loop of parseDHCPOptions at its head: index i, the map built so far,
\* whether the function has returned, and the indices of options it has read
LoopHead(i, result, done, read) ==
    [i |-> i, result |-> result, done |-> done, read |-> read]

\* one pass through the loop, from the test of i < len(options) to the next
\* such test or to the return
Iteration(options, st) ==
    LET i == st.i
        n == Len(options)
    IN  IF ~(i < n) THEN [st EXCEPT !.done = TRUE]
        ELSE IF At(options, i) = 255
        THEN [st EXCEPT !.done = TRUE, !.read = @ \cup {i}]
        ELSE IF At(options, i) = 0
        THEN [st EXCEPT !.i = i + 1, !.read = @ \cup {i}]
        ELSE IF i + 1 >= n
        THEN [st EXCEPT !.done = TRUE, !.read = @ \cup {i}]
        ELSE LET optionLen == At(options, i + 1)
             IN  IF i + 2 + optionLen > n
                 THEN [st EXCEPT !.done = TRUE, !.read = @ \cup {i, i + 1}]
                 ELSE LoopHead(i + 2 + optionLen,
                               Report(st.result, At(options, i),
                                      Slice(options, i + 2, i + 2 + optionLen)),
                               FALSE,
                               st.read \cup (i .. (i + 1 + optionLen)))

\* parseDHCP calls parseDHCPOptions on payload[240:]: the map is made
parseDHCPOptions ==
    /\ output = NotCalled
    /\ output' = Result(LoopHead(0, EmptyMap, FALSE, {}))
    /\ UNCHANGED <<input, restVars>>

\* the loop goes round once
OptionsLoop ==
    /\ output.called
    /\ ~output.value.done
    /\ output' = Result(Iteration(input, output.value))
    /\ UNCHANGED <<input, restVars>>

\* the options are any bytes: the payload is whatever the sender put in it
InitOptions ==
    /\ InitHelper
    /\ input \in SeqsUpTo(OptionBytes, MaxOptionBytes)
    /\ output = NotCalled

NextOptions == parseDHCPOptions \/ OptionsLoop

\* the goroutine of the worker runs on: a loop that can go round does
SpecOptions == InitOptions /\ [][NextOptions]_vars /\ WF_vars(NextOptions)

----------------------------------------------------------------------------
(* The locking discipline: every handler as the sequence of lock operations *)
(* it performs, on sync.RWMutex locks                                        *)

Lock(m) == [op |-> "Lock", m |-> m]
Unlock(m) == [op |-> "Unlock", m |-> m]
RLock(m) == [op |-> "RLock", m |-> m]
RUnlock(m) == [op |-> "RUnlock", m |-> m]

\* UpdateAsset calling GetStats while it holds the table lock
UpdateExisting_ReadsStats(a) ==
    <<Lock("table"), Lock(a), Unlock(a), RLock("table"), RUnlock("table"),
      Unlock("table")>>

\* UpdateAsset on an asset the table holds: the table lock, then Asset.Update
\* under the lock of the asset
UpdateExisting(a) == <<Lock("table"), Lock(a), Unlock(a), Unlock("table")>>

\* UpdateAsset creating the asset: NewAsset takes no lock
UpdateNew == <<Lock("table"), Unlock("table")>>

\* cleanupInactiveAssets: the table lock, then SetInactive under the lock of
\* each expired asset, in the order of the map iteration
Cleanup(expired) ==
    <<Lock("table")>>
    \o [i \in 1..(2 * Len(expired)) |->
          IF i % 2 = 1 THEN Lock(expired[(i + 1) \div 2])
          ELSE Unlock(expired[i \div 2])]
    \o <<Unlock("table")>>

\* updateStats reads the fields of the assets under the table lock alone
Stats == <<Lock("table"), Unlock("table")>>

\* MemoryStorage.SaveAsset, FileStorage.SaveAsset
StorageSave == <<Lock("storage"), Unlock("storage")>>

\* saveAsset: the lookup under the read lock, released before the save
SaveOne == <<RLock("table"), RUnlock("table")>> \o StorageSave

\* saveAsset of an id the table does not hold
SaveNone == <<RLock("table"), RUnlock("table")>>

\* saveAllAssets: the assets are collected under the read lock, released
\* before the n saves
SaveAll(n) ==
    <<RLock("table"), RUnlock("table")>>
    \o [i \in 1..(2 * n) |-> IF i % 2 = 1 THEN Lock("storage") ELSE Unlock("storage")]

\* GetAsset, GetAllAssets, GetActiveAssets, GetAssetsByType, GetAssetsByOS,
\* GetStats, SearchAssets
Read == <<RLock("table"), RUnlock("table")>>

\* Asset.GetSummary on an asset a reader was given
Summary(a) == <<RLock(a), RUnlock(a)>>

\* the sequences without repetition over the asset locks
Orders == { q \in SeqsUpTo(AssetLocks, 2) :
              \A i, j \in DOMAIN q : i # j => q[i] # q[j] }

\* the handlers each goroutine runs
Handlers(g) ==
    CASE g \in {"worker1", "worker2"} ->
             {UpdateNew} \cup { UpdateExisting(a) : a \in AssetLocks }
      [] g = "cleanup" -> { Cleanup(q) : q \in Orders }
      [] g = "stats" -> {Stats}
      [] g = "save" -> {SaveOne, SaveNone}
      [] g = "main" -> {SaveAll(Cardinality(AssetLocks))}
      [] g = "reader" -> {Read} \cup { Summary(a) : a \in AssetLocks }

\* goroutine g enters one of its handlers
Enter(g) ==
    /\ pc[g] = <<>>
    /\ \E h \in Handlers(g) : pc' = [pc EXCEPT ![g] = h]
    /\ UNCHANGED <<held, callVars, baseVars>>

\* the next lock operation of g returns at once
Ready(g) ==
    /\ pc[g] # <<>>
    /\ LET o == Head(pc[g])
           l == held[o.m]
       IN  CASE o.op = "Lock" ->
                    IF l.pending = g THEN l.readers = {}
                    ELSE l.writer = "none" /\ l.pending = "none"
             [] o.op = "RLock" -> l.writer = "none" /\ l.pending = "none"
             [] OTHER -> TRUE

\* g performs its next lock operation.  Lock first shuts the new readers
\* out, then waits for the readers it found to leave; RLock waits while a
\* writer holds the lock or has announced itself.
Operate(g) ==
    /\ Ready(g)
    /\ LET o == Head(pc[g])
           l == held[o.m]
       IN  CASE o.op = "Lock" /\ l.pending # g /\ l.readers # {} ->
                    /\ held' = [held EXCEPT ![o.m].pending = g]
                    /\ UNCHANGED pc
             [] o.op = "Lock" /\ (l.pending = g \/ l.readers = {}) ->
                    /\ held' = [held EXCEPT ![o.m].pending = "none",
                                            ![o.m].writer = g]
                    /\ pc' = [pc EXCEPT ![g] = Tail(@)]
             [] o.op = "Unlock" ->
                    /\ held' = [held EXCEPT ![o.m].writer = "none"]
                    /\ pc' = [pc EXCEPT ![g] = Tail(@)]
             [] o.op = "RLock" ->
                    /\ held' = [held EXCEPT ![o.m].readers = @ \cup {g}]
                    /\ pc' = [pc EXCEPT ![g] = Tail(@)]
             [] o.op = "RUnlock" ->
                    /\ held' = [held EXCEPT ![o.m].readers = @ \ {g}]
                    /\ pc' = [pc EXCEPT ![g] = Tail(@)]
    /\ UNCHANGED <<callVars, baseVars>>

InitOrder == InitState("memory", NumWorkers, MaxPackets)

NextOrder ==
    \/ \E g \in Goroutines : Enter(g)
    \/ \E g \in Goroutines : Operate(g)

SpecOrder == InitOrder /\ [][NextOrder]_vars

----------------------------------------------------------------------------
(* Properties *)

\* a step that merged an observation (UpdateAsset past its nil check)
MergeStep == last'.op = "merge" /\ (calls' # calls \/ merged' # merged)

\* a step that ran the expiry tick
ExpiryStep == last'.op = "expiry" /\ (last.op # "expiry" \/ assets' # assets)

\* the time label of second t
Label(t) == ToString(t)

\* C1: every merge looks up and creates its asset under the identifier given
\* by priority: "mac_" + MAC when the MAC is non-empty (even with an IPv4),
\* otherwise "ip_" + IPv4 when the IPv4 is non-empty, otherwise "unknown_" +
\* the label of the time of the call; exactly that key is created or
\* updated, every other entry of the table is left alone.
C1_IdentityPriority ==
    [][MergeStep =>
        LET o == last'.obs
            id == IF o.MACAddress # "" THEN "mac_" \o o.MACAddress
                  ELSE IF o.IPAddress # "" THEN "ip_" \o o.IPAddress
                  ELSE "unknown_" \o Label(clock)
        IN  /\ DOMAIN assets' = DOMAIN assets \cup {id}
            /\ \A k \in DOMAIN assets \ {id} : assets'[k] = assets[k]
            /\ assets'[id].LastSeen \in {clock, clock'}
            /\ id \in DOMAIN assets =>
                  assets'[id].FirstSeen = assets[id].FirstSeen]_vars

\* C1 witness: the table holds an asset under each of the three kinds of id,
\* the MAC-keyed one created from an observation that also carried an IPv4
C1_Witness ==
    /\ ("mac_" \o Mac1) \in DOMAIN assets
    /\ assets["mac_" \o Mac1].IPAddress # ""
    /\ ("ip_" \o Ip2) \in DOMAIN assets
    /\ \E t \in 0..clock : ("unknown_" \o Label(t)) \in DOMAIN assets

C2_IdNeverChanges ==
    [][\A k \in DOMAIN assets :
          k \in DOMAIN assets' /\ assets'[k].ID = assets[k].ID]_vars

TouchedKey(o) ==
    IF o.MACAddress # "" THEN "mac_" \o o.MACAddress
    ELSE IF o.IPAddress # "" THEN "ip_" \o o.IPAddress
    ELSE "unknown_" \o Label(clock)

\* C3: after every merge of an accepted observation O (creating or
\* updating), the resulting asset has last_seen >= first_seen, last_update
\* >= first_seen, a confidence within [0,1] (0..10 tenths), every port of
\* O's open-port list in its port set and every key of O's service map as a
\* service name of its service set.
C3_PostMerge ==
    [][MergeStep =>
        LET o == last'.obs
            a == assets'[TouchedKey(o)]
        IN  /\ a.LastSeen >= a.FirstSeen
            /\ a.LastUpdate >= a.FirstSeen
            /\ a.Confidence \in 0..10
            /\ \A i \in DOMAIN o.OpenPorts :
                  \E p \in BagToSet(a.OpenPorts) : p.Port = o.OpenPorts[i]
            /\ \A n \in DOMAIN o.Services :
                  \E sv \in a.Services : sv.Name = n]_vars

\* C3 witness: a merge into an existing asset has added a port and services
\* the asset did not have (ports 22 and 80, three service names)
C3_Witness ==
    /\ last.op = "merge"
    /\ \E k \in DOMAIN assets :
         /\ assets[k].LastSeen > assets[k].FirstSeen
         /\ PortNumbers(assets[k].OpenPorts) = {22, 80}
         /\ Cardinality(assets[k].Services) = 3

\* C4: over merges and expiry ticks the set of port numbers and the set of
\* service names of an asset never lose an element, so their sizes never
\* decrease.
C4_MonotonicPortsServices ==
    [][\A k \in DOMAIN assets :
          /\ k \in DOMAIN assets'
          /\ PortNumbers(assets[k].OpenPorts) \subseteq PortNumbers(assets'[k].OpenPorts)
          /\ ServiceNames(assets[k].Services) \subseteq ServiceNames(assets'[k].Services)
          /\ Cardinality(PortNumbers(assets'[k].OpenPorts))
                >= Cardinality(PortNumbers(assets[k].OpenPorts))
          /\ Cardinality(ServiceNames(assets'[k].Services))
                >= Cardinality(ServiceNames(assets[k].Services))]_vars

\* C4 witness: an asset that holds two ports and three services has been
\* merged again with an observation listing only one of the ports, and
\* has been expired
C4_Witness ==
    \E k \in DOMAIN assets :
        /\ PortNumbers(assets[k].OpenPorts) = {22, 80}
        /\ Cardinality(assets[k].Services) = 3
        /\ Len(assets[k].Changes) >= 4
        /\ ~assets[k].IsActive

\* s is a prefix of t
IsPrefix(s, t) == Len(s) <= Len(t) /\ SubSeq(t, 1, Len(s)) = s

\* C5: every operation (merge, expiry) leaves the change journal of every
\* asset as a prefix of its new journal: the length never decreases and no
\* entry is rewritten or removed.
C5_JournalAppendOnly ==
    [][\A k \in DOMAIN assets :
          /\ k \in DOMAIN assets'
          /\ IsPrefix(assets[k].Changes, assets'[k].Changes)]_vars

\* C5 witness: a journal that was appended to by a merge and then by an expiry
C5_Witness ==
    \E k \in DOMAIN assets :
        LET j == assets[k].Changes
        IN  /\ Len(j) >= 2
            /\ j[Len(j)].ChangeType = "status_change"
            /\ j[1].ChangeType # "status_change"

\* C6: immediately after an expiry tick executed at time T (the clock when
\* the tick starts) with timeout tau, no asset of the table is active with
\* last_seen < T - tau; merges interleave with the ticks in any order.
C6_ExpiryCorrect ==
    [][ExpiryStep =>
        \A k \in DOMAIN assets' :
            ~(/\ assets'[k].IsActive
              /\ assets'[k].LastSeen < clock - AssetTimeout * Minute)]_vars

\* C6 witness: an expiry tick has just run over a table with a stale asset,
\* now inactive, and an asset seen exactly tau ago or later, still active
C6_Witness ==
    /\ last.op = "expiry"
    /\ \E k \in DOMAIN assets :
         ~assets[k].IsActive /\ assets[k].LastSeen < clock - AssetTimeout * Minute
    /\ \E k \in DOMAIN assets : assets[k].IsActive

\* the status_change entry an expiry appends
IsDeactivation(e) ==
    e.ChangeType = "status_change" /\ e.OldValue = TRUE /\ e.NewValue = FALSE

\* what an expiry tick does to the asset stored under k, its save being the
\* task named id
ExpiryEffect(k, id) ==
    LET a == assets[k]
        stale == a.IsActive /\ a.LastSeen < clock - AssetTimeout * Minute
        others == { j \in DOMAIN assets :
                      /\ j # k
                      /\ assets[j].ID = id
                      /\ assets[j].IsActive
                      /\ assets[j].LastSeen < clock - AssetTimeout * Minute }
    IN  IF stale
        THEN /\ ~assets'[k].IsActive
             /\ Len(assets'[k].Changes) = Len(a.Changes) + 1
             /\ IsPrefix(a.Changes, assets'[k].Changes)
             /\ IsDeactivation(assets'[k].Changes[Len(a.Changes) + 1])
             /\ CopiesIn(id, saveTasks')
                  = CopiesIn(id, saveTasks) + 1 + Cardinality(others)
        ELSE /\ assets'[k] = a
             /\ CopiesIn(id, saveTasks')
                  = CopiesIn(id, saveTasks) + Cardinality(others)

C7_ExpiryEffectById ==
    [][ExpiryStep =>
        /\ DOMAIN assets' = DOMAIN assets
        /\ \A k \in DOMAIN assets : ExpiryEffect(k, assets[k].ID)]_vars

C8_KeysOnlyGrow == [][DOMAIN assets \subseteq DOMAIN assets']_vars

\* C8 witness: an asset was expired, the manager was stopped and its flush
\* has run, and the asset is still in the table
C8_Witness ==
    /\ mgrStopped
    /\ flushPending = {}
    /\ \E k \in DOMAIN assets : ~assets[k].IsActive

\* a step that merged the observation the operation before it merged
DupMergeStep == MergeStep /\ last'.dup

\* the journal of b is the journal of a followed by n more entries
Appended(a, b, n) ==
    Len(b.Changes) = Len(a.Changes) + n /\ IsPrefix(a.Changes, b.Changes)

\* C10 as stated, for observations that carry a MAC or an IPv4: when O is
\* merged twice in succession, the second merge creates no asset, appends
\* no change-journal entry and sets last_seen to its own time.
C10_Idempotent ==
    [][(DupMergeStep /\ (last'.obs.MACAddress # "" \/ last'.obs.IPAddress # "")) =>
        LET k == TouchedKey(last'.obs)
        IN  /\ k \in DOMAIN assets
            /\ DOMAIN assets' = DOMAIN assets
            /\ assets'[k].Changes = assets[k].Changes
            /\ assets'[k].LastSeen \in {clock, clock'}]_vars

\* C10 amended: when O is merged twice in succession, the second merge
\* updates the asset stored under O's identifier, creating none, and sets
\* its last_seen to its own time; it appends no change-journal entry,
\* except exactly one ports_change when O's open-port list is non-empty and
\* its length differs from the length of the asset's port list.  Only an
\* observation with neither MAC nor IPv4 whose time label has changed since
\* the first merge creates a second asset.
C10_IdempotentButPorts ==
    [][DupMergeStep =>
        LET o == last'.obs
            k == TouchedKey(o)
        IN  IF k \in DOMAIN assets
            THEN LET lenDiffers ==
                         /\ Len(o.OpenPorts) > 0
                         /\ BagCardinality(assets[k].OpenPorts) # Len(o.OpenPorts)
                 IN  /\ DOMAIN assets' = DOMAIN assets
                     /\ assets'[k].LastSeen \in {clock, clock'}
                     /\ assets'[k].LastSeen >= assets[k].LastSeen
                     /\ IF lenDiffers
                        THEN /\ Appended(assets[k], assets'[k], 1)
                             /\ assets'[k].Changes[Len(assets'[k].Changes)].ChangeType
                                  = "ports_change"
                        ELSE Appended(assets[k], assets'[k], 0)
            ELSE /\ o.MACAddress = "" /\ o.IPAddress = ""
                 /\ DOMAIN assets' = DOMAIN assets \cup {k}
                 /\ assets'[k].Changes = <<>>]_vars

\* C10 witness: the HTTP observation, listing port 80 alone, has just been
\* merged twice in succession into an asset holding ports 22 and 80, and the
\* second merge has journaled a ports_change
C10_Witness ==
    /\ last.dup
    /\ last.obs = ObsHttp(0)
    /\ LET a == assets[TouchedKey(ObsHttp(0))]
       IN  /\ PortNumbers(a.OpenPorts) = {22, 80}
           /\ a.Changes[Len(a.Changes)].ChangeType = "ports_change"
           /\ a.Changes[Len(a.Changes)].Timestamp = a.LastSeen

\* the merged frames of the asset stored under k that carry a value of
\* field F ("IPAddress" or "Hostname"), as indices of merged
Carrying(k, F) ==
    { i \in DOMAIN merged : TouchedKey(merged[i]) = k /\ merged[i][F] # "" }

\* asset k holds the F of its merged frame that the source yielded last,
\* whenever an earlier frame of it carried another value
NewestYieldedWins(k, F) ==
    \A j \in Carrying(k, F) :
        (/\ \A i \in Carrying(k, F) : merged[i].Timestamp <= merged[j].Timestamp
         /\ \E i \in Carrying(k, F) : merged[i][F] # merged[j][F])
        => assets[k][F] = merged[j][F]

\* asset k holds the F of its frame that was merged last
LastMergedWins(k, F) ==
    \A j \in Carrying(k, F) :
        (\A i \in Carrying(k, F) : i <= j) => assets[k][F] = merged[j][F]

\* C9 as stated: for frames f1 then f2 of one asset, yielded in that order
\* with different non-empty IPv4 addresses or hostnames, once both have been
\* merged (and no frame yielded later has), the asset holds the IPv4 and the
\* hostname of f2, for every number of workers.
C9_OlderNeverOverwrites ==
    \A k \in DOMAIN assets : \A F \in {"IPAddress", "Hostname"} :
        NewestYieldedWins(k, F)

\* C9 amended: the asset holds the IPv4 and the hostname of whichever frame
\* was merged last; that is the frame yielded last when the pool has one
\* worker, and with two or more workers it may be the older frame.
C9_LastMergedWins ==
    \A k \in DOMAIN assets : \A F \in {"IPAddress", "Hostname"} :
        /\ LastMergedWins(k, F)
        /\ Cardinality(Workers) = 1 => NewestYieldedWins(k, F)

\* C9 witness: a single worker has merged two frames of one asset that
\* differ in IPv4 and in hostname
C9_Witness ==
    /\ Cardinality(Workers) = 1
    /\ Len(merged) = 2
    /\ merged[1].Timestamp < merged[2].Timestamp
    /\ merged[1].IPAddress # merged[2].IPAddress
    /\ merged[1].Hostname # merged[2].Hostname
    /\ assets[TouchedKey(merged[2])].IPAddress = merged[2].IPAddress

\* the handlers that are between their Lock and their Unlock
InHandler ==
    { WorkerName(w) : w \in { v \in Workers : wstate[v] \in {"locked", "updating"} } }
    \cup { l \in DOMAIN cs : cs[l] = "locked" }

\* how far each handler has got
Positions == <<wstate, cs>>

\* C11: at no time are two of the state-changing operations (a merge by a
\* worker, the expiry tick, the statistics tick) in progress together, and
\* while one of them is in progress and takes no step, the asset table and
\* the statistics do not change: the steps of a merge are never interleaved
\* with those of another merge, an expiry or a statistics tick.
C11_NoInterleaving ==
    [][/\ Cardinality(InHandler') <= 1
       /\ (InHandler # {} /\ Positions' = Positions) =>
             (assets' = assets /\ stats' = stats)]_vars

\* C11 witness: a merge is in progress, between Lock and Unlock, while the
\* other worker waits to merge into the same asset, past the time at which
\* an expiry acts
C11_Witness ==
    \E w \in Workers : \E v \in Workers :
        /\ wstate[w] = "updating"
        /\ wstate[v] = "merge"
        /\ TouchedKey(wobs[v]) = pend[w].key
        /\ clock > AssetTimeout * Minute

\* C12: every document a save hands to the storage (the asynchronous save
\* of a merge) is the document of an asset state left by a whole operation:
\* it never shows some but not all of the field updates and journal
\* entries of one merge.
C12_WholeSnapshots == \A id \in DOMAIN store : store[id] \in whole

\* C12: a stored document shows the address written by a merge whose
\* journal entries and timestamps it does not show
C12_TornSnapshot ==
    \E id \in DOMAIN store :
        /\ store[id] \notin whole
        /\ \E d \in whole :
             /\ d.id = id
             /\ d.changes = store[id].changes
             /\ d.last_seen = store[id].last_seen
             /\ d.ip_address # store[id].ip_address

\* every worker has returned
WorkersDone == \A w \in Workers : wstate[w] = "done"

\* C13: once the stop signal has been fired, every worker eventually exits
\* and the capture call returns; it returns only after saveAllAssets has
\* handed every asset of the table to the storage, and once the flush has
\* started no worker merges.  From the start of the flush the stop case of
\* the expiry loop and of the statistics loop is ready: each loop exits at
\* that case, or ends with the process when the call returns first.
C13_Cancellation ==
    /\ ceStopped ~> (WorkersDone /\ Returned /\ flushed = DOMAIN assets)
    /\ [](Returned => flushed = DOMAIN assets)
    /\ [](mgrStopped => WorkersDone)
    /\ []((mgrStopped /\ ~Returned) => \A l \in loops : ENABLED RoutineStop(l))
    /\ [][mgrStopped => merged' = merged]_vars

\* C13 witness: the stop signal was fired while a worker was handling a
\* frame; the workers have exited, both loops have exited and the call has
\* returned with the asset of the table flushed
C13_Witness ==
    /\ ceStopped
    /\ packetChan # <<>>
    /\ WorkersDone
    /\ loops = {}
    /\ Returned
    /\ flushed = DOMAIN assets
    /\ flushed # {}

\* C14: when the capture file reaches end-of-stream and no stop signal is
\* ever fired, all workers exit, the manager flushes the assets and
\* StartOfflineCapture returns.
C14_ReplayTerminates ==
    <>[](sourceClosed /\ ~ceStopped) => <>Returned

\* C14: the file is at end-of-stream and drained, every worker has exited,
\* and the call has not returned: processPackets waits for the stop signal
C14_Stuck ==
    /\ sourceClosed
    /\ packetChan = <<>>
    /\ WorkersDone
    /\ assets # EmptyMap
    /\ ~ceStopped
    /\ ~mgrStopped
    /\ ~ENABLED processPacketsReturn

RECURSIVE SumTo(_, _)
\* f[1] + ... + f[n]
SumTo(f, n) == IF n = 0 THEN 0 ELSE f[n] + SumTo(f, n - 1)

\* the number of positions of sequence q that hold x
CountIn(x, q) == Cardinality({ j \in DOMAIN q : q[j] = x })

\* the workers that are handling frame x
Handling(x) == { w \in Workers : wstate[w] = "merge" /\ wobs[w] = x }

\* no worker has reached the max_packets cap
NoCap == maxPackets > 0 => \A w \in Workers : packetsProcessed[w] < maxPackets

\* C15: every frame the capture source has yielded is in exactly one place:
\* still in the channel, with the one worker that received it, or handled
\* (counted by that worker and, when the parser returned an observation,
\* merged exactly once); no frame is handled twice.  When the workers have
\* all exited and neither the stop signal nor the cap has fired, the source
\* is at end-of-stream, no frame is left, and every observation has been
\* merged exactly once.
C15_ExactlyOnce ==
    /\ Len(packetChan) + Cardinality({ w \in Workers : wstate[w] = "merge" })
         + SumTo(packetsProcessed, Cardinality(Workers)) = Len(sent)
    /\ \A i \in DOMAIN sent :
          LET x == sent[i]
              places == CountIn(x, packetChan) + Cardinality(Handling(x))
                          + CountIn(x, merged)
          IN  /\ places <= 1
              /\ ParsePacket(x) # Nil => places = 1
              /\ ParsePacket(x) = Nil => Handling(x) = {} /\ CountIn(x, merged) = 0
    /\ \A j \in DOMAIN merged : CountIn(merged[j], sent) = 1
    /\ (WorkersDone /\ ~ceStopped /\ NoCap) =>
          /\ sourceClosed
          /\ packetChan = <<>>
          /\ \A i \in DOMAIN sent :
                ParsePacket(sent[i]) # Nil => CountIn(sent[i], merged) = 1

\* C15 witness: the source has yielded two frames, one with an observation
\* and one without, and is at end-of-stream; two workers have handled one
\* frame each and have exited, with no stop signal and below the cap
C15_Witness ==
    /\ Cardinality(Workers) = 2
    /\ WorkersDone
    /\ ~ceStopped
    /\ NoCap
    /\ Len(sent) = 2
    /\ \A w \in Workers : packetsProcessed[w] = 1
    /\ Len(merged) = 1

\* a step in which a worker takes from the channel a frame that yields no
\* observation
NothingReceived ==
    /\ packetChan # <<>>
    /\ packetChan' = Tail(packetChan)
    /\ ParsePacket(Head(packetChan)) = Nil

\* C16: with max_packets = N > 0 the worker-local counter of a worker never
\* exceeds N and the worker has exited as soon as its counter is N; a frame
\* that yields no observation is counted as well; a worker exits only at
\* the cap, on the stop signal or on a closed and drained channel, so with
\* max_packets = 0 the counter never makes it exit.
C16_Cap ==
    [][/\ \A w \in Workers :
            /\ maxPackets' > 0 =>
                  /\ packetsProcessed'[w] <= maxPackets'
                  /\ packetsProcessed'[w] = maxPackets' => wstate'[w] = "done"
            /\ (wstate[w] # "done" /\ wstate'[w] = "done") =>
                  \/ maxPackets > 0 /\ packetsProcessed'[w] = maxPackets
                  \/ ceStopped
                  \/ sourceClosed /\ packetChan = <<>>
       /\ NothingReceived =>
             \E w \in Workers : packetsProcessed'[w] = packetsProcessed[w] + 1]_vars

\* C16 witness: with the cap at two, a worker has exited at its second
\* frame, one of its frames having yielded no observation, and has left a
\* frame in the channel with no stop signal
C16_Witness ==
    /\ maxPackets = 2
    /\ Cardinality(Workers) = 1
    /\ packetsProcessed[1] = 2
    /\ wstate[1] = "done"
    /\ Len(merged) = 1
    /\ packetChan # <<>>
    /\ ~ceStopped
    /\ ~sourceClosed

\* a direct call of UpdateAsset whose observation is nil or carries neither
\* a MAC nor an IPv4
ErrorCallStep ==
    /\ calls' # calls
    /\ \/ last'.op = "none"
       \/ last'.obs.MACAddress = "" /\ last'.obs.IPAddress = ""

\* C17: a call of the manager's merge with a nil observation, or with an
\* observation that carries neither a MAC nor an IPv4, leaves the asset
\* table, every asset, the new-asset counter and the scheduled saves
\* unchanged.
C17_MergeErrorsDiscard ==
    [][ErrorCallStep =>
          /\ assets' = assets
          /\ stats'.NewAssets = stats.NewAssets
          /\ saveTasks' = saveTasks]_vars

\* C17, the part that holds: a nil observation is discarded
C17_NilDiscarded ==
    [][(calls' # calls /\ last'.op = "none") =>
          /\ assets' = assets
          /\ stats' = stats
          /\ saveTasks' = saveTasks]_vars

\* C17: an observation without MAC and IPv4 has been accepted: the table
\* holds an asset made from it, counted as new, with a save scheduled
C17_NoIdentityAccepted ==
    \E k \in DOMAIN assets :
        /\ assets[k].MACAddress = ""
        /\ assets[k].IPAddress = ""
        /\ assets[k].Hostname = ObsNoIdentity.Hostname
        /\ stats.NewAssets >= 1
        /\ BagIn(k, saveTasks)

\* a step in which a save goroutine or the stop-time flush hands the asset
\* stored under k to the storage, which returns an error
FailedSaveStep(k) ==
    /\ k \in DOMAIN assets
    /\ \/ CopiesIn(k, saveTasks') = CopiesIn(k, saveTasks) - 1
       \/ k \in flushPending /\ k \notin flushPending'
    /\ ~SaveAsset(store, assets[k]).ok

\* C18: a save that returns an error changes nothing in the asset table or
\* the store and stops no routine and no worker; every accepted merge,
\* whatever became of earlier saves, schedules one more save of its asset.
C18_SaveErrorsNotFatal ==
    [][/\ \A k \in DOMAIN assets :
            FailedSaveStep(k) =>
                /\ assets' = assets
                /\ stats' = stats
                /\ store' = store
                /\ loops' = loops
                /\ mgrStopped' = mgrStopped
                /\ wstate' = wstate
       /\ MergeStep =>
             LET k == TouchedKey(last'.obs)
             IN  CopiesIn(k, saveTasks') = CopiesIn(k, saveTasks) + 1]_vars

\* C18 witness: with the file backend, whose saves of manager assets fail,
\* an asset has been merged twice and one of its two saves has run and
\* failed; the other is scheduled, the table holds the asset and both
\* routines run
C18_Witness ==
    /\ storageType = "file"
    /\ calls = 2
    /\ last.dup
    /\ stats.NewAssets = 1
    /\ store = EmptyMap
    /\ ~mgrStopped
    /\ loops = {"cleanup", "stats"}
    /\ \E k \in DOMAIN assets :
         /\ saveTasks = SetToBag({k})
         /\ assets[k].IsActive

\* a step in which a save goroutine or the stop-time flush hands the asset
\* stored under k to the storage
SaveStep(k) ==
    /\ k \in DOMAIN assets
    /\ \/ CopiesIn(k, saveTasks') = CopiesIn(k, saveTasks) - 1
       \/ k \in flushPending /\ k \notin flushPending'

\* C19 as stated: with the file backend and with the memory backend, every
\* save of an asset A of the manager, by a save goroutine or by the
\* stop-time flush, returns ok, and get(A.id) then returns A's document.
C19_RoundTrip ==
    [][\A k \in DOMAIN assets :
          SaveStep(k) =>
              /\ SaveAsset(store, assets[k]).ok
              /\ GetAsset(store', assets[k].ID) = ToJSON(assets[k])]_vars

\* C19, the part that holds: the round trip with the memory backend
C19_MemoryRoundTrip ==
    [][\A k \in DOMAIN assets :
          (SaveStep(k) /\ storageType = "memory") =>
              /\ SaveAsset(store, assets[k]).ok
              /\ GetAsset(store', assets[k].ID) = ToJSON(assets[k])]_vars

\* C19: with the file backend the manager has stopped and flushed its
\* assets, and the backend holds no document of any of them
C19_FileHoldsNothing ==
    /\ storageType = "file"
    /\ Returned
    /\ DOMAIN assets # {}
    /\ \A k \in DOMAIN assets : GetAsset(store, assets[k].ID) = Missing

\* the memory backend holds the document of an asset after the flush
C19_MemoryHoldsDocument ==
    /\ storageType = "memory"
    /\ Returned
    /\ \E k \in DOMAIN assets : GetAsset(store, assets[k].ID) = ToJSON(assets[k])

\* C20: when the construction of the configured storage backend fails, the
\* failure is returned to the caller and the run aborts with a non-zero
\* exit code: the asset manager's routines, the capture and the workers are
\* never started.
C20_InitErrorsSurfaced ==
    engine.err =>
        /\ engine.phase = "failed"
        /\ engine.exit # 0
        /\ loops = {}
        /\ Workers = {}
        /\ yielded = 0

\* C20, the part that holds: a capture that cannot be opened is surfaced,
\* the command exits with code 1 and nothing is started
C20_OpenErrorsSurfaced ==
    engine.phase = "failed" =>
        /\ engine.exit = 1
        /\ loops = {}
        /\ Workers = {}
        /\ yielded = 0
        /\ assets = EmptyMap

\* C20: the construction of the file backend failed and the run went on
\* with the memory backend: the routines and the workers run and an asset
\* has been merged and saved to the memory backend
C20_RunsOnFallback ==
    /\ engine.err
    /\ Started
    /\ engine.exit = 0
    /\ storageType = "memory"
    /\ loops = {"cleanup", "stats"}
    /\ Workers # {}
    /\ DOMAIN assets # {}
    /\ DOMAIN store # {}

\* C21: in every reachable state an asset with active = false has
\* now - last_seen > asset_timeout: only the expiry tick deactivates, and
\* only assets seen longer ago than the timeout; every merge reactivates
\* the asset and refreshes its last_seen together.
C21_InactiveOnlyWhenStale ==
    \A k \in DOMAIN assets :
        ~assets[k].IsActive =>
            clock - assets[k].LastSeen > AssetTimeout * Minute

\* C21 witness: two assets were deactivated by an expiry tick; one is still
\* inactive, the other has been merged again and is active with the last_seen
\* of that merge
C21_Witness ==
    /\ \E k \in DOMAIN assets : ~assets[k].IsActive
    /\ \E k \in DOMAIN assets :
         /\ assets[k].IsActive
         /\ \E i \in DOMAIN assets[k].Changes :
               /\ IsDeactivation(assets[k].Changes[i])
               /\ assets[k].LastSeen >= assets[k].Changes[i].Timestamp
         /\ clock - assets[k].LastSeen <= AssetTimeout * Minute

\* the confidence formula on the attributes an asset holds, in tenths
AttrConfidence(a) ==
    LET c == (IF a.MACAddress # "" THEN 3 ELSE 0)
           + (IF a.IPAddress # "" THEN 2 ELSE 0)
           + (IF a.Hostname # "" THEN 2 ELSE 0)
           + (IF a.OpenPorts # EmptyBag THEN 1 ELSE 0)
           + (IF a.Services # {} THEN 1 ELSE 0)
           + (IF a.OSInfo.Family # "" THEN 1 ELSE 0)
    IN  IF c > 10 THEN 10 ELSE IF c < 0 THEN 0 ELSE c

\* C22: after every merge the confidence of the asset equals the formula
\* evaluated on the asset's own attributes (0.3 MAC + 0.2 IPv4 + 0.2
\* hostname + 0.1 ports + 0.1 services + 0.1 OS family, clamped to [0,1]),
\* and a merge into an existing asset never lowers its confidence.
C22_ConfidenceOfAsset ==
    [][MergeStep =>
        LET k == TouchedKey(last'.obs)
        IN  /\ assets'[k].Confidence = AttrConfidence(assets'[k])
            /\ k \in DOMAIN assets =>
                  assets'[k].Confidence >= assets[k].Confidence]_vars

\* C22, the part that holds: the confidence after a merge is the formula
\* evaluated on the merged observation
C22_ConfidenceOfObservation ==
    [][MergeStep =>
        assets'[TouchedKey(last'.obs)].Confidence
            = calculateConfidence(last'.obs)]_vars

\* C22: an asset that holds a MAC, an IPv4, a hostname, ports, services and
\* an OS family (formula: 1.0) has been merged with a frame carrying the MAC
\* alone and its confidence is 0.3
C22_ConfidenceDropped ==
    /\ last.op = "merge"
    /\ last.obs = ObsEthOnly
    /\ LET a == assets[TouchedKey(ObsEthOnly)]
       IN  /\ AttrConfidence(a) = 10
           /\ a.Confidence = 3

\* a step of the statistics tick that changed the statistics
StatsStep == stats' # stats /\ calls' = calls /\ merged' = merged

\* histogram h counts the non-empty values of field F over the table tbl
\* exactly: a value has an entry if and only if it is non-empty and some
\* asset holds it, and the entry is the number of assets holding it
CountsExactly(h, tbl, F(_)) ==
    /\ \A v \in DOMAIN h :
          /\ v # ""
          /\ h[v] >= 1
          /\ h[v] = Cardinality({ k \in DOMAIN tbl : F(tbl[k]) = v })
    /\ \A k \in DOMAIN tbl : F(tbl[k]) # "" => F(tbl[k]) \in DOMAIN h

DeviceTypeOf(a) == a.DeviceType
FamilyOf(a) == a.OSInfo.Family

\* C23: immediately after each statistics tick, total_assets is the number
\* of assets in the table, active_assets the number with active = true, the
\* device-type histogram counts each non-empty device type exactly as it
\* occurs in the table and the OS-family histogram each non-empty OS family;
\* the tick leaves new_assets unchanged, and over any run new_assets is only
\* ever incremented, by one on each first sight of an identifier (a new key
\* of the table) and by nothing else.
C23_Statistics ==
    [][/\ StatsStep =>
            /\ assets' = assets
            /\ stats'.TotalAssets = Cardinality(DOMAIN assets')
            /\ stats'.ActiveAssets
                 = Cardinality({ k \in DOMAIN assets' : assets'[k].IsActive })
            /\ CountsExactly(stats'.DeviceTypes, assets', DeviceTypeOf)
            /\ CountsExactly(stats'.OSDistribution, assets', FamilyOf)
            /\ stats'.NewAssets = stats.NewAssets
       /\ stats'.NewAssets
            = stats.NewAssets + Cardinality(DOMAIN assets' \ DOMAIN assets)
       /\ Cardinality(DOMAIN assets' \ DOMAIN assets) <= 1]_vars

\* C23 witness: a statistics tick has run over a table of two assets, both
\* counted as new, one of them inactive and one without an OS family
C23_Witness ==
    /\ stats.TotalAssets = 2
    /\ Cardinality(DOMAIN assets) = 2
    /\ stats.ActiveAssets = 1
    /\ stats.NewAssets = 2
    /\ \E k \in DOMAIN assets : assets[k].OSInfo.Family = ""
    /\ Cardinality(DOMAIN stats.OSDistribution) = 1
    /\ Cardinality(DOMAIN stats.DeviceTypes) = 2
    /\ stats.LastUpdate = clock

\* the clause of each recognised protocol name
ClauseTable ==
    [arp |-> "arp", dhcp |-> "port 67 or port 68", dns |-> "port 53",
     http |-> "port 80", https |-> "port 443", smb |-> "port 445 or port 139",
     mdns |-> "port 5353"]

Recognised(p) == p \in DOMAIN ClauseTable

RECURSIVE JoinedByOr(_)
\* the clauses of a non-empty list of recognised names, joined by " or "
JoinedByOr(names) ==
    IF Len(names) = 1 THEN ClauseTable[names[1]]
    ELSE ClauseTable[names[1]] \o " or " \o JoinedByOr(Tail(names))

\* C24: for every list P of enabled protocols the filter installed is
\* "(" + C + ")", C being the clauses of the recognised names of P in list
\* order joined by " or " (arp -> arp, dhcp -> port 67 or port 68, dns ->
\* port 53, http -> port 80, https -> port 443, smb -> port 445 or port 139,
\* mdns -> port 5353); unrecognised names contribute nothing, and when no
\* clause results no filter is installed.
C24_Filter ==
    output.called =>
        LET names == SelectSeq(input, Recognised)
        IN  IF names = <<>>
            THEN ~output.value.installed
            ELSE /\ output.value.installed
                 /\ output.value.filter = "(" \o JoinedByOr(names) \o ")"

\* C24 witness: the filter of a list with a two-port clause, an
\* unrecognised name and a one-word clause, in that order
C24_Witness ==
    /\ input = <<"dhcp", "icmp", "arp">>
    /\ output = Result([installed |-> TRUE,
                        filter |-> "(port 67 or port 68 or arp)"])

\* C25: the device type is a total function of (vendor, open-port set, OS
\* guess), the first match of this order winning: a virtual-machine vendor
\* gives virtual machine whatever the ports; otherwise any port of
\* {22,23,3389,21,25,53,110,143} gives server, with or without web ports,
\* and web ports {80,443,8080,8443} alone give web device; otherwise
\* Linux/Unix gives server, Windows workstation, Cisco/Network Device
\* network device and anything else unknown device.
C25_Classification ==
    output.called =>
        LET ports == { input.OpenPorts[i] : i \in DOMAIN input.OpenPorts }
            server == ports \cap {22, 23, 3389, 21, 25, 53, 110, 143} # {}
            web == ports \cap {80, 443, 8080, 8443} # {}
        IN  /\ output.value \in {"virtual machine", "server", "web device",
                                  "workstation", "network device",
                                  "unknown device"}
            /\ output.value =
                 CASE input.Vendor \in {"VMware", "VirtualBox", "Microsoft Hyper-V",
                                        "QEMU/KVM", "Xen"} -> "virtual machine"
                   [] OTHER ->
                 CASE server -> "server"
                   [] web /\ ~server -> "web device"
                   [] OTHER ->
                 CASE input.OSGuess = "Linux/Unix" -> "server"
                   [] input.OSGuess = "Windows" -> "workstation"
                   [] input.OSGuess = "Cisco/Network Device" -> "network device"
                   [] OTHER -> "unknown device"

\* C25 witness: an observation of no known vendor listing a web port and then
\* a server port, guessed Windows, is classified server
C25_Witness ==
    /\ input # Nil
    /\ input.Vendor = ""
    /\ input.OpenPorts = <<80, 22>>
    /\ input.OSGuess = "Windows"
    /\ output = Result("server")

\* the systems whose token occurs in the User-Agent ua, whatever its case
Named(ua) ==
    LET l == ToLower(ua)
    IN  (IF Contains(l, TokAndroid) THEN {"Android"} ELSE {})
   \cup (IF Contains(l, TokIphone) \/ Contains(l, TokIpad) THEN {"iOS"} ELSE {})
   \cup (IF Contains(l, TokMacOsX) \/ Contains(l, TokMacos) THEN {"macOS"} ELSE {})
   \cup (IF Contains(l, TokWindows) THEN {"Windows"} ELSE {})
   \cup (IF Contains(l, TokLinux) THEN {"Linux"} ELSE {})

\* C26: the OS hint of a User-Agent is decided by case-insensitive
\* substring match in the priority order android, iphone/ipad, mac os
\* x/macos, windows, linux, giving Android, iOS, macOS, Windows, Linux: when
\* several tokens occur, the one earliest in that order wins.
C26_Priority ==
    output.called =>
        LET n == Named(input)
        IN  output.value =
                IF "Android" \in n THEN "Android"
                ELSE IF "iOS" \in n THEN "iOS"
                ELSE IF "macOS" \in n THEN "macOS"
                ELSE IF "Windows" \in n THEN "Windows"
                ELSE IF "Linux" \in n THEN "Linux"
                ELSE ""

\* C26, the part that holds: the hint is one of the systems whose token
\* occurs, whatever the case of its letters; it is that system when only one
\* occurs and empty when none does
C26_SomeNamedSystem ==
    output.called =>
        IF Named(input) = {} THEN output.value = ""
        ELSE output.value \in Named(input)

\* C26: a User-Agent naming Linux and Android has the hint Linux
C26_LinuxBeatsAndroid ==
    /\ Named(input) = {"Linux", "Android"}
    /\ Contains(input, <<"L", "i", "n", "u", "x", ";", " ", "A", "n", "d", "r", "o", "i", "d">>)
    /\ output = Result("Linux")

\* what ParsePacket extracts from the packet of the state
Extracted == Extract(input.packet, input.enabled)

\* observation o carries a MAC, an IPv4, a hostname, an open port, a
\* service or a protocol payload
Carries(o) ==
    \/ o.MACAddress # ""
    \/ o.IPAddress # ""
    \/ o.Hostname # ""
    \/ o.OpenPorts # <<>>
    \/ o.Services # EmptyMap
    \/ o.Protocols # EmptyMap

\* C27: the parser returns an observation for a frame if and only if the
\* extracted observation carries at least one of MAC, IPv4, hostname, open
\* port, service, protocol payload, and then returns the extracted
\* observation; a frame from which none of these is extracted (no unicast
\* Ethernet source, no ARP operation parsed, no IPv4 layer) yields nothing
\* and causes no merge.
C27_Retention ==
    /\ output.called =>
          /\ Carries(Extracted) <=> output.value # Nil
          /\ output.value # Nil => output.value = Extracted
          /\ (/\ input.packet.eth # "unicast"
              /\ input.packet.ip = "none"
              /\ ~("arp" \in input.enabled /\ input.packet.arp = "request"))
                => output.value = Nil
    /\ (assets # EmptyMap \/ calls > 0) =>
          output.called /\ output.value # Nil /\ last.obs = output.value

\* C27 witness: an ARP request with a multicast Ethernet source, ARP
\* parsing being disabled, has been parsed: nothing is returned and nothing
\* is merged
C27_Witness ==
    /\ output = Result(Nil)
    /\ input.packet = [eth |-> "multicast", arp |-> "request", ip |-> "none"]
    /\ input.enabled = {}
    /\ assets = EmptyMap
    /\ ~ENABLED Handle

\* a frame carrying only a unicast MAC is retained and merged
C27_MacOnlyRetained ==
    /\ input.packet = [eth |-> "unicast", arp |-> "none", ip |-> "none"]
    /\ output.called
    /\ output.value = ObsEthOnly
    /\ DOMAIN assets = {"mac_" \o Mac1}

\* a step that merged an observation into an asset the table already held
UpdateStep == MergeStep /\ TouchedKey(last'.obs) \in DOMAIN assets

\* the journal entries the step appended to the asset stored under k
Added(k) ==
    SubSeq(assets'[k].Changes, Len(assets[k].Changes) + 1, Len(assets'[k].Changes))

\* the number of entries of journal j that have the change type t
CountType(j, t) == Cardinality({ i \in DOMAIN j : j[i].ChangeType = t })

\* the scalar rule for field F, journaled under change type t
ScalarRule(F, t) ==
    LET o == last'.obs
        k == TouchedKey(o)
        differs == o[F] # "" /\ o[F] # assets[k][F]
    IN  /\ CountType(Added(k), t) = IF differs THEN 1 ELSE 0
        /\ assets'[k][F] = IF differs THEN o[F] ELSE assets[k][F]
        /\ \A i \in DOMAIN Added(k) :
              Added(k)[i].ChangeType = t =>
                  /\ Added(k)[i].OldValue = assets[k][F]
                  /\ Added(k)[i].NewValue = o[F]

\* C28: a merge of O into A appends an ip_change entry if and only if
\* O.IPv4 is non-empty and differs from A.IPv4, and a hostname_change entry
\* if and only if O.hostname is non-empty and differs from A.hostname;
\* afterwards A holds O's value for each such field, and an empty IPv4 or
\* hostname in O never clears or changes the value A holds.
C28_ScalarMerge ==
    [][UpdateStep =>
          /\ ScalarRule("IPAddress", "ip_change")
          /\ ScalarRule("Hostname", "hostname_change")]_vars

\* C28 witness: an asset whose address and hostname were changed by a merge
\* (both journaled) has then been merged with a frame carrying neither, and
\* holds both values still
C28_Witness ==
    /\ last.op = "merge"
    /\ last.obs = ObsEthOnly
    /\ LET a == assets[TouchedKey(ObsEthOnly)]
       IN  /\ a.IPAddress = ObsDhcp(0).IPAddress
           /\ a.Hostname = ObsDhcp(0).Hostname
           /\ CountType(a.Changes, "ip_change") = 1
           /\ CountType(a.Changes, "hostname_change") = 1

\* the port entries of asset a for port p
EntriesOf(a, p) == { e \in BagToSet(a.OpenPorts) : e.Port = p }

\* after the step, the asset under k has one entry for port p, last seen
\* during the step and first seen when the entry it had before was
RefreshedPort(k, p) ==
    /\ EntriesOf(assets'[k], p) # {}
    /\ \A e \in EntriesOf(assets'[k], p) :
          /\ e.LastSeen \in clock..clock'
          /\ \E d \in EntriesOf(assets[k], p) : e.FirstSeen = d.FirstSeen

\* the ports observation o lists that asset a already holds
KnownPorts(o, a) == SeqRange(o.OpenPorts) \cap PortNumbers(a.OpenPorts)

\* C29: whenever a merged observation lists a port p that is already in
\* A.ports, the entry for p afterwards has last_seen equal to the merge time
\* and its original first_seen, including the case where O's port set
\* equals A's port set.
C29_PortLastSeen ==
    [][UpdateStep =>
        LET k == TouchedKey(last'.obs)
        IN  \A p \in KnownPorts(last'.obs, assets[k]) : RefreshedPort(k, p)]_vars

\* C29, the part that holds: the entry is refreshed when O's port list and
\* A's differ in length or O lists a port A does not hold
C29_WhenPortsDiffer ==
    [][UpdateStep =>
        LET o == last'.obs
            k == TouchedKey(o)
            a == assets[k]
        IN  (\/ Len(o.OpenPorts) # BagCardinality(a.OpenPorts)
             \/ ~(SeqRange(o.OpenPorts) \subseteq PortNumbers(a.OpenPorts)))
            => \A p \in KnownPorts(o, a) : RefreshedPort(k, p)]_vars

\* C29: an asset holding port 22 alone has been merged, later, with an
\* observation listing port 22 alone: the asset was last seen at that merge
\* and its entry for port 22 before it
C29_StaleLastSeen ==
    /\ last.op = "merge"
    /\ last.obs = ObsSsh(0)
    /\ LET a == assets[TouchedKey(ObsSsh(0))]
       IN  /\ PortNumbers(a.OpenPorts) = {22}
           /\ \E e \in EntriesOf(a, 22) : e.LastSeen < a.LastSeen

\* an entry for port 22 refreshed by a merge listing port 22 into an asset
\* that holds ports 22 and 80
C29_Refreshed ==
    /\ last.op = "merge"
    /\ last.obs = ObsSsh(0)
    /\ LET a == assets[TouchedKey(ObsSsh(0))]
       IN  /\ PortNumbers(a.OpenPorts) = {22, 80}
           /\ \E e \in EntriesOf(a, 22) :
                 e.LastSeen >= a.LastSeen /\ e.FirstSeen < e.LastSeen

\* OS info b is OS info a merged field by field with n: non-empty new
\* family, version and kernel replace the old ones, the detection methods
\* are unioned, the larger confidence is kept
MergedFieldwise(b, a, n) ==
    /\ b.Family = IF n.Family # "" THEN n.Family ELSE a.Family
    /\ b.Version = IF n.Version # "" THEN n.Version ELSE a.Version
    /\ b.Kernel = IF n.Kernel # "" THEN n.Kernel ELSE a.Kernel
    /\ b.Detection = a.Detection \cup n.Detection
    /\ b.Confidence >= a.Confidence
    /\ b.Confidence >= n.Confidence
    /\ b.Confidence \in {a.Confidence, n.Confidence}

\* C30: on every merge the OS info recomputed from O is merged into
\* A.OSInfo field by field, whether or not the family changed; an os_change
\* entry is journaled exactly when the recomputed family differs from A's
\* family.
C30_OSInfoMerge ==
    [][UpdateStep =>
        LET k == TouchedKey(last'.obs)
            n == extractOSInfo(last'.obs)
        IN  /\ MergedFieldwise(assets'[k].OSInfo, assets[k].OSInfo, n)
            /\ CountType(Added(k), "os_change")
                 = IF n.Family # assets[k].OSInfo.Family THEN 1 ELSE 0]_vars

\* C30, the part that holds: when O carries an OS guess that differs from
\* A's family, one os_change is journaled and the recomputed OS info is
\* merged field by field; otherwise A.OSInfo is left as it was and no
\* os_change is journaled
C30_OnlyWhenFamilyChanges ==
    [][UpdateStep =>
        LET k == TouchedKey(last'.obs)
            n == extractOSInfo(last'.obs)
        IN  IF n.Family # "" /\ n.Family # assets[k].OSInfo.Family
            THEN /\ MergedFieldwise(assets'[k].OSInfo, assets[k].OSInfo, n)
                 /\ CountType(Added(k), "os_change") = 1
            ELSE /\ assets'[k].OSInfo = assets[k].OSInfo
                 /\ CountType(Added(k), "os_change") = 0]_vars

\* C30: an asset of family Windows has been merged with a DHCP request of
\* the same family that carries a vendor class: the asset has no OS version
\* and its detection methods lack the vendor class
C30_VersionNotMerged ==
    /\ last.op = "merge"
    /\ last.obs = ObsDhcp(0)
    /\ LET a == assets[TouchedKey(ObsDhcp(0))]
       IN  /\ a.OSInfo.Family = ObsDhcp(0).OSGuess
           /\ extractOSInfo(ObsDhcp(0)).Version # ""
           /\ a.OSInfo.Version = ""
           /\ "dhcp_vendor_class" \notin a.OSInfo.Detection
           /\ CountType(a.Changes, "os_change") = 0

\* an OS info merged field by field: the family changed and the version of
\* an earlier observation was kept
C30_MergedOnChange ==
    /\ last.op = "merge"
    /\ last.obs = ObsSsh(0)
    /\ LET a == assets[TouchedKey(ObsSsh(0))]
       IN  /\ a.OSInfo.Family = "Linux/Unix"
           /\ a.OSInfo.Version = extractOSInfo(ObsDhcp(0)).Version
           /\ CountType(a.Changes, "os_change") >= 1


\* the field of the asset that a journal entry of each change type of
\* Asset.Update is about
FacetField ==
    [ip_change |-> "IPAddress", hostname_change |-> "Hostname",
     ports_change |-> "OpenPorts", os_change |-> "OSInfo",
     device_type_change |-> "DeviceType"]

\* the entry e, appended by the step to the asset under k, has for old value
\* what the asset held before the step and for new value what it holds after
RecordsChange(k, e) ==
    LET F == FacetField[e.ChangeType]
    IN  /\ e.OldValue = assets[k][F]
        /\ e.NewValue = assets'[k][F]
        /\ e.OldValue # e.NewValue

\* C31: every change-journal entry appended by a merge records a real change
\* of the asset: its old value is the asset's value of that facet (IPv4,
\* hostname, port set, OS info, device type) immediately before the merge,
\* its new value is the asset's value of that facet immediately after the
\* merge, and the two differ.
C31_EntriesRecordChange ==
    [][UpdateStep =>
          LET k == TouchedKey(last'.obs)
          IN  \A i \in DOMAIN Added(k) : RecordsChange(k, Added(k)[i])]_vars

\* C31, the part that holds: the old value of every entry is the asset's
\* value before the merge and differs from the new value, and the new value
\* of an ip_change, hostname_change or device_type_change entry is the
\* asset's value after the merge; the new value of a ports_change or
\* os_change entry is the observation's port list or OS info, as converted.
C31_NewValueOfObservation ==
    [][UpdateStep =>
          LET o == last'.obs
              k == TouchedKey(o)
          IN  \A i \in DOMAIN Added(k) :
                 LET e == Added(k)[i]
                 IN  /\ e.OldValue = assets[k][FacetField[e.ChangeType]]
                     /\ e.OldValue # e.NewValue
                     /\ e.ChangeType \in {"ip_change", "hostname_change",
                                          "device_type_change"}
                            => e.NewValue = assets'[k][FacetField[e.ChangeType]]
                     /\ e.ChangeType = "ports_change"
                            => PortNumbers(e.NewValue) = SeqRange(o.OpenPorts)
                     /\ e.ChangeType = "os_change"
                            => e.NewValue = extractOSInfo(o)]_vars

\* C31 divergence: the asset held port 80 and has just been merged with a
\* frame from port 22; the ports_change entry of that merge has the one port
\* of the frame for new value, while the asset holds both ports
C31_NewValueNotTheAssets ==
    /\ last.op = "merge"
    /\ last.obs = ObsSsh(0)
    /\ LET a == assets[TouchedKey(ObsSsh(0))]
           e == a.Changes[Len(a.Changes)]
       IN  /\ Len(a.Changes) > 0
           /\ e.ChangeType = "ports_change"
           /\ e.Timestamp = a.LastUpdate
           /\ PortNumbers(e.NewValue) = {22}
           /\ PortNumbers(a.OpenPorts) = {22, 80}


\* C32: every merge into an asset the table holds, one that expiry has marked
\* inactive included, leaves it active with last_seen = last_update = the
\* wall-clock time of the merge (a time the clock showed while the merge
\* ran), whatever the capture timestamp of the frame; so the last_seen of an
\* asset never decreases.
C32_Touch ==
    [][/\ UpdateStep =>
            LET a == assets'[TouchedKey(last'.obs)]
            IN  /\ a.IsActive
                /\ a.LastSeen = a.LastUpdate
                /\ clock <= a.LastSeen /\ a.LastSeen <= clock'
       /\ \A k \in DOMAIN assets :
            assets'[k].LastSeen >= assets[k].LastSeen]_vars

\* C32 witness: an asset that expiry had marked inactive has been merged with
\* a frame captured long before: it is active, and its last_seen and
\* last_update are the time of the merge, not the capture timestamp
C32_Witness ==
    /\ last.op = "merge"
    /\ last.obs # Nil
    /\ LET k == TouchedKey(last.obs)
           a == assets[k]
       IN  /\ k \in DOMAIN assets
           /\ CountType(a.Changes, "status_change") > 0
           /\ a.IsActive
           /\ a.LastSeen = clock
           /\ a.LastUpdate = clock
           /\ a.LastSeen > last.obs.Timestamp + AssetTimeout * Minute
           /\ a.FirstSeen < a.LastSeen


\* the index after the item at index q of the options, or -1 when parsing
\* stops at q: at the end of the bytes, at an End option, at a type byte with
\* no length byte, at an option longer than the bytes left
Follows(options, q) ==
    LET n == Len(options)
    IN  IF q >= n THEN -1
        ELSE IF At(options, q) = 255 THEN -1
        ELSE IF At(options, q) = 0 THEN q + 1
        ELSE IF q + 1 >= n THEN -1
        ELSE IF q + 2 + At(options, q + 1) > n THEN -1
        ELSE q + 2 + At(options, q + 1)

\* the indices at which an item of the options starts
RECURSIVE ItemsFrom(_, _)
ItemsFrom(options, q) ==
    IF Follows(options, q) = -1 THEN {q}
    ELSE {q} \cup ItemsFrom(options, Follows(options, q))

\* the complete options of type t, by their indices
OptionsOfType(options, t) ==
    { q \in ItemsFrom(options, 0) :
        /\ q < Len(options)
        /\ At(options, q) = t
        /\ t \notin {0, 255}
        /\ Follows(options, q) # -1 }

\* the value of the last complete option of type t, reported under key
LastValue(options, result, t, key) ==
    LET opts == OptionsOfType(options, t)
        q == CHOOSE x \in opts : \A y \in opts : y <= x
    IN  IF opts = {} THEN ~HasKey(result, key)
        ELSE /\ HasKey(result, key)
             /\ result[key] = Slice(options, q + 2, q + 2 + At(options, q + 1))

\* C33: parseDHCPOptions returns on every byte sequence and reads no byte
\* outside it; pad bytes are skipped one at a time, an End option, a type byte
\* without a length byte and an option longer than the remaining bytes each
\* stop the parsing with the options before them kept, only options 12, 15
\* and 60 are reported (hostname, domain, vendor_class), and a repeated
\* option keeps its last value.
C33_DhcpOptions ==
    /\ [](output.called =>
            /\ output.value.read \subseteq 0 .. (Len(input) - 1)
            /\ output.value.i <= Len(input)
            /\ DOMAIN output.value.result
                   \subseteq {"hostname", "domain", "vendor_class"}
            /\ output.value.done =>
                   /\ LastValue(input, output.value.result, 12, "hostname")
                   /\ LastValue(input, output.value.result, 15, "domain")
                   /\ LastValue(input, output.value.result, 60, "vendor_class"))
    /\ <>(output.called /\ output.value.done)

\* C33 witness: a hostname option of one byte followed by a hostname option
\* of no byte: the parser has read all five bytes and returned the empty
\* hostname of the second
C33_Witness ==
    /\ input = <<12, 1, 1, 12, 0>>
    /\ output.called
    /\ output.value.done
    /\ output.value.read = 0..4
    /\ output.value.result = ("hostname" :> <<>>)

\* C33 witness of the stops: a pad byte, a hostname option, and a vendor class
\* option that declares more bytes than are left: the hostname is kept
C33_TruncatedKept ==
    /\ input = <<0, 12, 0, 60, 15>>
    /\ output.called
    /\ output.value.done
    /\ output.value.result = ("hostname" :> <<>>)


\* the number of frames the workers have handled, all together
TotalProcessed == SumTo(packetsProcessed, Cardinality(Workers))

\* C34: max_packets is the maximum number of packets processed: with
\* max_packets = N > 0 and W workers, the workers together never handle more
\* than N frames in one run.
C34_TotalCap == maxPackets > 0 => TotalProcessed <= maxPackets

\* C34, the part that holds: each worker stops at N frames of its own, so
\* the workers together handle at most W times N frames.
C34_CapPerWorker ==
    maxPackets > 0 => TotalProcessed <= Cardinality(Workers) * maxPackets

\* C34 divergence: with the cap at two and two workers, three frames have
\* been handled and a worker is still receiving
C34_OverTheCap ==
    /\ maxPackets = 2
    /\ Cardinality(Workers) = 2
    /\ TotalProcessed = 3
    /\ \E w \in Workers : wstate[w] = "recv"


\* C35: every asset document that an earlier run saved into the storage
\* backend is in the table under its id once the manager has started, with
\* the first_seen and the journal it was saved with, so that a merge for that
\* identity updates the record and counts no new asset.
C35_StoredAssetsLoaded ==
    Started =>
        /\ \A id \in DOMAIN store :
              /\ id \in DOMAIN assets
              /\ assets[id].FirstSeen = store[id].first_seen
              /\ Len(assets[id].Changes) >= Len(store[id].changes)
        /\ stats.NewAssets = Cardinality(DOMAIN assets \ DOMAIN store)

\* C35, what the code does: no stored document is a *Asset, so the table is
\* empty after Start whatever the backend holds, and it holds afterwards the
\* assets that the merges of this run created, each counted as new.
C35_NothingLoaded ==
    /\ Started /\ calls = 0 => assets = EmptyMap
    /\ stats.NewAssets = Cardinality(DOMAIN assets)

\* C35 divergence: the backend holds the document of the asset of Mac1 that
\* an earlier run saved with two journal entries; the manager has started
\* and merged a frame of Mac1 a minute later: the asset is a new one, first
\* seen at the merge, with an empty journal, and is counted as new
C35_KnownAssetCreatedAnew ==
    /\ Started
    /\ last.op = "merge"
    /\ LET id == "mac_" \o Mac1
       IN  /\ id \in DOMAIN store
           /\ id \in DOMAIN assets
           /\ store[id].first_seen = 0
           /\ Len(store[id].changes) > 0
           /\ assets[id].FirstSeen >= AssetTimeout * Minute
           /\ assets[id].Changes = <<>>
           /\ stats.NewAssets = 1


\* the locks goroutine g holds, for writing or for reading
HeldBy(g) == { m \in LockNames : held[m].writer = g \/ g \in held[m].readers }

\* g is inside a lock operation that has not returned
Waiting(g) == pc[g] # <<>> /\ ~Ready(g)

\* the goroutines that must release the lock before g's operation returns
Blockers(g) ==
    LET o == Head(pc[g])
        l == held[o.m]
    IN  IF o.op = "Lock" /\ l.pending = g THEN l.readers
        ELSE {l.writer, l.pending} \ {"none"}

\* the goroutines of set D wait for one another: none of them ever goes on
Deadlocked(D) ==
    /\ D # {}
    /\ \A g \in D : Waiting(g) /\ Blockers(g) \cap D # {}

\* the lock g asks for next, if any
Requests(g, m) ==
    /\ pc[g] # <<>>
    /\ Head(pc[g]).op \in {"Lock", "RLock"}
    /\ Head(pc[g]).m = m

\* C36: with the workers merging, the expiry tick, the statistics tick, the
\* savers and the readers all running, no goroutines ever wait for one
\* another for the table lock, the lock of an asset or the storage lock;
\* the table lock is never requested by a goroutine that holds the lock of
\* an asset, and the storage lock is never requested by a goroutine that
\* holds the table lock.
C36_NoDeadlock ==
    /\ \A D \in SUBSET { g \in Goroutines : Waiting(g) } : ~Deadlocked(D)
    /\ \A g \in Goroutines :
          /\ Requests(g, "table") => HeldBy(g) \cap AssetLocks = {}
          /\ Requests(g, "storage") => "table" \notin HeldBy(g)
          /\ \A a \in AssetLocks :
                Requests(g, a) => HeldBy(g) \subseteq {"table"}

\* C36 witness: a worker is in Asset.Update under the table lock, the other
\* worker, the expiry tick and a saver wait for the table lock, the
\* statistics tick has not asked for it yet, a reader holds the lock of the
\* other asset and saveAllAssets holds the storage lock
C36_Witness ==
    /\ held["table"].writer = "worker1"
    /\ held["asset1"].writer = "worker1"
    /\ Waiting("worker2") /\ Requests("worker2", "table")
    /\ Waiting("cleanup") /\ Requests("cleanup", "table")
    /\ Waiting("save") /\ Requests("save", "table")
    /\ "reader" \in held["asset2"].readers
    /\ held["storage"].writer = "main"


\* C37: the identifying attribute of an asset is frozen: an asset with id
\* "mac_" + m has MAC m in every reachable state; an asset with id "ip_" + x
\* has an empty MAC and IPv4 x in every reachable state, and no ip_change
\* entry in its journal.
C37_IdentityFrozen ==
    \A k \in DOMAIN assets :
        LET a == assets[k]
        IN  /\ \A m \in {Mac1} : a.ID = "mac_" \o m => a.MACAddress = m
            /\ \A x \in {Ip1, Ip2} :
                  a.ID = "ip_" \o x =>
                      /\ a.MACAddress = ""
                      /\ a.IPAddress = x
                      /\ CountType(a.Changes, "ip_change") = 0
            /\ a.ID \in {"mac_" \o Mac1, "ip_" \o Ip1, "ip_" \o Ip2}

\* C37 witness: the asset keyed by Ip2 has been merged with an observation
\* that changed its hostname and with one that changed its ports: its
\* journal has both entries and no ip_change, its address is Ip2 and it has
\* no MAC
C37_Witness ==
    /\ "ip_" \o Ip2 \in DOMAIN assets
    /\ LET a == assets["ip_" \o Ip2]
       IN  /\ a.ID = "ip_" \o Ip2
           /\ CountType(a.Changes, "hostname_change") = 1
           /\ CountType(a.Changes, "ports_change") = 1
           /\ CountType(a.Changes, "ip_change") = 0
           /\ a.Hostname = "gateway"
           /\ a.IPAddress = Ip2
           /\ a.MACAddress = ""


\* C38: after every merge the device type of the asset is the classification
\* of the merged observation alone (its vendor, its own open ports, its OS
\* guess), whatever ports the asset has accumulated; a merge into an asset
\* the table holds appends a device_type_change entry exactly when that
\* classification differs from the stored device type, so observations of
\* two kinds that alternate append one on every merge.
C38_DeviceTypeOfObservation ==
    [][MergeStep =>
          LET o == last'.obs
              k == TouchedKey(o)
          IN  /\ assets'[k].DeviceType = classifyDeviceType(o)
              /\ k \in DOMAIN assets =>
                    CountType(Added(k), "device_type_change") =
                        IF classifyDeviceType(o) # assets[k].DeviceType
                        THEN 1 ELSE 0]_vars

\* C38 witness: frames from port 80, from port 22 and from port 80 again
\* have been merged into one asset: it holds both ports, its device type is
\* that of a frame from port 80 alone, and each of the two later merges has
\* journaled a device_type_change
C38_Witness ==
    /\ last.op = "merge"
    /\ last.obs = ObsHttp(0)
    /\ LET a == assets[TouchedKey(ObsHttp(0))]
       IN  /\ PortNumbers(a.OpenPorts) = {22, 80}
           /\ a.DeviceType = "web device"
           /\ CountType(a.Changes, "device_type_change") = 2


\* the number of status_change entries in the journal of asset a
StatusChanges(a) == CountType(a.Changes, "status_change")

\* C39: every status_change entry of every journal has old = true and
\* new = false; an expiry tick that deactivates an asset appends exactly one
\* to its journal and nothing else appends any, so their number is the number
\* of expiry ticks that deactivated the asset; a merge that turns an inactive
\* asset active again appends none.
C39_StatusChanges ==
    /\ [](\A k \in DOMAIN assets :
            \A i \in DOMAIN assets[k].Changes :
               LET e == assets[k].Changes[i]
               IN  e.ChangeType = "status_change" =>
                       e.OldValue = TRUE /\ e.NewValue = FALSE)
    /\ [][\A k \in DOMAIN assets :
            StatusChanges(assets'[k]) =
                StatusChanges(assets[k]) +
                (IF ExpiryStep /\ assets[k].IsActive /\ ~assets'[k].IsActive
                 THEN 1 ELSE 0)]_vars
    /\ [][\A k \in DOMAIN assets :
            ~assets[k].IsActive /\ assets'[k].IsActive =>
                /\ MergeStep
                /\ k = TouchedKey(last'.obs)
                /\ StatusChanges(assets'[k]) = StatusChanges(assets[k])]_vars

\* C39 witness: an asset that an expiry tick deactivated has been merged
\* with an observation that changed it: it is active, its journal has the one
\* status_change of the tick, followed by the entries of the merge
C39_Witness ==
    /\ last.op = "merge"
    /\ last.obs # Nil
    /\ TouchedKey(last.obs) \in DOMAIN assets
    /\ LET a == assets[TouchedKey(last.obs)]
       IN  /\ a.IsActive
           /\ StatusChanges(a) = 1
           /\ Len(a.Changes) > 1
           /\ a.Changes[1].ChangeType = "status_change"
           /\ a.Changes[Len(a.Changes)].ChangeType # "status_change"
           /\ a.Changes[Len(a.Changes)].Timestamp >= a.Changes[1].Timestamp


\* no merge, expiry or statistics tick is under way and every save goroutine
\* that was started has handed its asset to the storage
Quiescent ==
    /\ mu = "none"
    /\ saveTasks = EmptyBag
    /\ saveRead = EmptyBag

C40_ConvergesWithIdentity ==
    (storageType = "memory" /\ Quiescent) =>
        \A k \in DOMAIN assets :
            (assets[k].MACAddress # "" \/ assets[k].IPAddress # "") =>
                GetAsset(store, assets[k].ID) = ToJSON(assets[k])

====
